---- MODULE Spec2Model ----
(***************************************************************************)
(* Model of the frame pacer (Pacer, pacer.cpp): the pacing queue, the      *)
(* render queue, the overload-relaxation state machine, the V-sync thread, *)
(* the render thread (or main-thread rendering) and the destructor.        *)
(*                                                                         *)
(* Frames are the integers 1..n in submission order; 0 is nullptr.         *)
(* Code that runs with m_FrameQueueLock held is one step per critical      *)
(* section; code that runs without the lock is its own step.               *)
(***************************************************************************)
EXTENDS Integers, Sequences, FiniteSets, TLC

\* ------------------------------------------------------------------ bounds
MaxFrames == 6
MaxBacklogStreak == 9
MaxFramesLive == 2
MaxFramesRelax == 208
MaxFramesBurst == 55
MaxTicksRelax == 1
MaxFramesTicked == 27
MaxFramesStreak == 66
MaxFramesWindow == 3
MaxTicksWindow == 3
BurstFramesStreak == 4

\* ------------------------------------------------------- program constants
MAX_QUEUED_FRAMES_BALANCED == 3
MAX_QUEUED_FRAMES_LOW_LATENCY == 2
MAX_QUEUED_FRAMES_ULTRA_LOW == 1
PACER_MAX_OUTSTANDING_FRAMES == 5
OVERLOAD_RELAX_OVERFLOW_THRESHOLD == 24
OVERLOAD_RELAX_DURATION_FRAMES == 180
OVERLOAD_HEALTHY_RESET_FRAMES == 120
DECODER_BACKLOG_RELAX_THRESHOLD == 10
\* Mutant of DECODER_BACKLOG_RELAX_STREAK: one report more
BacklogRelaxStreakLate == DECODER_BACKLOG_RELAX_THRESHOLD - 1
DECODER_BACKLOG_RELAX_STREAK == 8
ULTRA_LOW_RELAX_OVERFLOW_THRESHOLD == 8
ULTRA_LOW_RELAX_DURATION_FRAMES == 300

FPM_BALANCED == "FPM_BALANCED"
FPM_LOW_LATENCY == "FPM_LOW_LATENCY"
FPM_ULTRA_LOW == "FPM_ULTRA_LOW"

\* backlogFrames values reported by the decoder: just below / at the threshold
BacklogInputs == {DECODER_BACKLOG_RELAX_THRESHOLD - 1, DECODER_BACKLOG_RELAX_THRESHOLD}

VARIABLES
    cfg,                    \* what the constructor and initialize() fixed
    m_FrameQueueLock,       \* owner of the mutex: "none", "dec", "vs", "rc"
    m_PacingQueue,
    m_RenderQueue,
    m_PacingQueueHistory,
    m_RenderQueueHistory,
    m_DeferredFreeFrame,
    m_Stopping,
    m_EnqueueOverflowStreak,
    m_EnqueueHealthyStreak,
    m_OverloadRelaxationActive,
    m_OverloadRelaxationFramesRemaining,
    m_DecoderBacklogStreak,
    pacerDroppedFrames,
    decPc, decFrame,        \* decoder thread: position, frame it is submitting
    vsPc, vsFrame, vsTarget,\* V-sync thread: position, frame being dropped, frameDropTarget
    rcPc, rcFrame, rcTarget,\* render context (render thread or main thread)
    dtPc,                   \* thread running ~Pacer
    crashed,                \* the process died on undefined behaviour
    nextFrame,              \* id of the next frame the decoder will submit
    freed,                  \* frame -> number of av_frame_free calls on it
    maxRendered,            \* newest frame passed to the renderer so far
    misordered,             \* a frame was rendered after a newer one
    usedAfterFree,          \* a freed frame was rendered or enqueued
    hvMoved,                \* frames the current handleVsync call moved
    relaxAge,               \* submitFrame calls since relaxation was activated
    ticks,                  \* V-sync ticks delivered so far
    cleanups,               \* calls of cleanupRenderContext()
    lastWakeUp,             \* what enqueueFrameForRenderingAndUnlock last did after unlock()
    m_VideoEnhancement,     \* the process-wide VideoEnhancement singleton
    d3d12va                 \* the D3D12VARenderer object

vars == <<cfg, m_FrameQueueLock, m_PacingQueue, m_RenderQueue, m_PacingQueueHistory,
          m_RenderQueueHistory, m_DeferredFreeFrame, m_Stopping, m_EnqueueOverflowStreak,
          m_EnqueueHealthyStreak, m_OverloadRelaxationActive,
          m_OverloadRelaxationFramesRemaining, m_DecoderBacklogStreak, pacerDroppedFrames,
          decPc, decFrame, vsPc, vsFrame, vsTarget, rcPc, rcFrame, rcTarget, dtPc, crashed,
          nextFrame, freed, maxRendered, misordered, usedAfterFree,
          hvMoved, relaxAge, ticks, cleanups, lastWakeUp,
          m_VideoEnhancement, d3d12va>>

\* the renderer's state, which the pacer never touches
d3dVars == <<m_VideoEnhancement, d3d12va>>

relaxVars == <<m_EnqueueOverflowStreak, m_EnqueueHealthyStreak, m_OverloadRelaxationActive,
               m_OverloadRelaxationFramesRemaining>>
decVars == <<decPc, decFrame>>
vsVars == <<vsPc, vsFrame, vsTarget>>
rcVars == <<rcPc, rcFrame, rcTarget>>
queueVars == <<m_PacingQueue, m_RenderQueue>>
histVars == <<m_PacingQueueHistory, m_RenderQueueHistory>>
renderGhosts == <<maxRendered, misordered>>

\* ------------------------------------------------------------ pure helpers
SDL_min(a, b) == IF a < b THEN a ELSE b
SDL_max(a, b) == IF a > b THEN a ELSE b

\* Pacer::Pacer, the switch on pacingMode
MaxQueuedFramesOf(mode) ==
    CASE mode = FPM_LOW_LATENCY -> MAX_QUEUED_FRAMES_LOW_LATENCY
      [] mode = FPM_ULTRA_LOW -> MAX_QUEUED_FRAMES_ULTRA_LOW
      [] OTHER -> MAX_QUEUED_FRAMES_BALANCED

m_MaxQueuedFrames == MaxQueuedFramesOf(cfg.mode)

\* Mutant of RelaxOverflowThreshold: the ultra-low threshold is never selected
RelaxOverflowThresholdGeneric(mode) == OVERLOAD_RELAX_OVERFLOW_THRESHOLD

\* dropFrameForEnqueue: relaxOverflowThreshold
RelaxOverflowThreshold(mode) ==
    IF mode = FPM_ULTRA_LOW THEN ULTRA_LOW_RELAX_OVERFLOW_THRESHOLD
                            ELSE OVERLOAD_RELAX_OVERFLOW_THRESHOLD

\* Mutant of RelaxDurationFrames: relaxation that starts with nothing to count
RelaxDurationNone(mode) == 0

\* Mutant of RelaxDurationFrames: the wrong constant for the generic duration
RelaxDurationWrongConstant(mode) ==
    IF mode = FPM_ULTRA_LOW THEN ULTRA_LOW_RELAX_DURATION_FRAMES
                            ELSE OVERLOAD_HEALTHY_RESET_FRAMES

\* dropFrameForEnqueue: relaxDurationFrames
RelaxDurationFrames(mode) ==
    IF mode = FPM_ULTRA_LOW THEN ULTRA_LOW_RELAX_DURATION_FRAMES
                            ELSE OVERLOAD_RELAX_DURATION_FRAMES

\* Mutant of EffectiveMaxQueuedFrames: the relaxed capacity is never applied
EffectiveMaxQueuedFramesUnrelaxed(mode, active) == MaxQueuedFramesOf(mode)

\* dropFrameForEnqueue: effectiveMaxQueuedFrames
EffectiveMaxQueuedFrames(mode, active) ==
    IF active /\ mode # FPM_BALANCED
    THEN SDL_min(MAX_QUEUED_FRAMES_BALANCED, MaxQueuedFramesOf(mode) + 1)
    ELSE MaxQueuedFramesOf(mode)

\* Mutant of DropWhileFull: the loop tests "size > cap" (off by one)
RECURSIVE DropWhileOverfull(_, _)
DropWhileOverfull(queue, cap) ==
    IF Len(queue) > cap /\ Len(queue) > 0
    THEN DropWhileOverfull(Tail(queue), cap)
    ELSE queue

\* Mutant of DropWhileFull: the loop removes the newest frame, not the oldest
RECURSIVE DropNewestWhileFull(_, _)
DropNewestWhileFull(queue, cap) ==
    IF Len(queue) >= cap /\ Len(queue) > 0
    THEN DropNewestWhileFull(SubSeq(queue, 1, Len(queue) - 1), cap)
    ELSE queue

\* dropFrameForEnqueue: while (queue.size() >= effectiveMaxQueuedFrames) queue.dequeue()
RECURSIVE DropWhileFull(_, _)
DropWhileFull(queue, cap) ==
    IF Len(queue) >= cap /\ Len(queue) > 0
    THEN DropWhileFull(Tail(queue), cap)
    ELSE queue

\* av_frame_free on every frame of a sequence (0 is nullptr, a no-op)
RECURSIVE FreeAll(_, _)
FreeAll(fr, frames) ==
    IF frames = <<>> THEN fr
    ELSE LET f == Head(frames)
             fr1 == IF f = 0 THEN fr ELSE [fr EXCEPT ![f] = SDL_min(@ + 1, 2)]
         IN FreeAll(fr1, Tail(frames))

IsFreed(f) == f # 0 /\ freed[f] > 0

\* Mutant of RelaxationApplies: the test of the pacing mode is missing
RelaxationAppliesToAnyMode(mode) == TRUE

\* dropFrameForEnqueue: m_FramePacingMode != FPM_BALANCED in the activation test
RelaxationApplies(mode) == mode # FPM_BALANCED

\* Mutant of HealthyResetDue: the reset one healthy enqueue later
HealthyResetLate(healthyStreak) == healthyStreak > OVERLOAD_HEALTHY_RESET_FRAMES

\* Pacer::dropFrameForEnqueue: m_EnqueueHealthyStreak >= OVERLOAD_HEALTHY_RESET_FRAMES,
\* tested after the increment
HealthyResetDue(healthyStreak) == healthyStreak >= OVERLOAD_HEALTHY_RESET_FRAMES

\* Pacer::dropFrameForEnqueue(queue): the queue and relaxation state it leaves
DropFrameForEnqueue(queue) ==
    LET eff == EffectiveMaxQueuedFrames(cfg.mode, m_OverloadRelaxationActive)
        overflow == Len(queue) >= eff
        os == IF overflow THEN m_EnqueueOverflowStreak + 1
              ELSE IF HealthyResetDue(m_EnqueueHealthyStreak + 1) THEN 0
              ELSE m_EnqueueOverflowStreak
        hs == IF overflow THEN 0 ELSE m_EnqueueHealthyStreak + 1
        activate == /\ overflow
                    /\ ~m_OverloadRelaxationActive
                    /\ RelaxationApplies(cfg.mode)
                    /\ os >= RelaxOverflowThreshold(cfg.mode)
        kept == IF overflow THEN DropWhileFull(queue, eff) ELSE queue
    IN [queue |-> kept,
        gone |-> SubSeq(queue, 1, Len(queue) - Len(kept)),
        overflow |-> overflow,
        overflowStreak |-> os,
        healthyStreak |-> hs,
        active |-> (m_OverloadRelaxationActive \/ activate),
        activated |-> activate,
        remaining |-> IF activate THEN RelaxDurationFrames(cfg.mode)
                      ELSE m_OverloadRelaxationFramesRemaining]

\* ------------------------------------------------------------------- Init
Modes == {FPM_BALANCED, FPM_LOW_LATENCY, FPM_ULTRA_LOW}

\* One configuration: what the constructor and initialize() fixed (pacing mode,
\* vsync source and render thread present or not, m_DisplayFps and m_MaxVideoFps,
\* whose halves are the lengths of the history windows, the renderer's
\* RENDERER_ATTRIBUTE_NO_BUFFERING), what the build does on an empty dequeue,
\* whether the decoder reports its backlog, and the length of the run.
Config(mode, vsync, rt, maxVideoFps, noBuffering, stale, backlog, maxFrames) ==
    [mode |-> mode, vsync |-> vsync, renderThread |-> rt, displayFps |-> 3,
     maxVideoFps |-> maxVideoFps, noBuffering |-> noBuffering, staleRead |-> stale,
     backlogReports |-> backlog, maxFrames |-> maxFrames,
     tickLimited |-> FALSE, maxTicks |-> 0, pacedAfter |-> 0]

Configs ==
    \* balanced, paced, long enough to fill both queues
    {Config(FPM_BALANCED, TRUE, TRUE, 2, TRUE, FALSE, FALSE, MaxFrames)}
    \* balanced, paced, with both history windows in use
    \cup {Config(FPM_BALANCED, TRUE, rt, 3, FALSE, FALSE, FALSE, MaxFrames - 2) :
            rt \in BOOLEAN}
    \* a build in which the empty dequeue returns a stale pointer
    \cup {Config(FPM_BALANCED, TRUE, rt, 2, TRUE, TRUE, FALSE, MaxFrames - 4) :
            rt \in BOOLEAN}
    \* the strict modes, paced, with decoder backlog reports
    \cup {Config(m, TRUE, rt, 2, TRUE, FALSE, TRUE, MaxFrames - 3) :
            m \in {FPM_LOW_LATENCY, FPM_ULTRA_LOW}, rt \in BOOLEAN}
    \* no vsync source: submitFrame bypasses the pacing queue
    \cup {Config(m, FALSE, rt, 3, FALSE, FALSE, FALSE, MaxFrames - 3) :
            m \in Modes, rt \in BOOLEAN}

\* no D3D12VARenderer has been created: the singleton holds its in-class initializers
VideoEnhancementFresh == [m_VSRcapable |-> FALSE, m_HDRcapable |-> FALSE]

NoRenderer == [pc |-> "absent"]

PacerInit(c) ==
    /\ cfg = c
    /\ m_FrameQueueLock = "none"
    /\ m_PacingQueue = <<>>
    /\ m_RenderQueue = <<>>
    /\ m_PacingQueueHistory = <<>>
    /\ m_RenderQueueHistory = <<>>
    /\ m_DeferredFreeFrame = 0
    /\ m_Stopping = FALSE
    /\ m_EnqueueOverflowStreak = 0
    /\ m_EnqueueHealthyStreak = 0
    /\ m_OverloadRelaxationActive = FALSE
    /\ m_OverloadRelaxationFramesRemaining = 0
    /\ m_DecoderBacklogStreak = 0
    /\ pacerDroppedFrames = 0
    /\ decPc = "idle"
    /\ decFrame = 0
    /\ vsPc = IF c.vsync THEN "loop" ELSE "none"
    /\ vsFrame = 0
    /\ vsTarget = 0
    /\ rcPc = IF c.renderThread THEN "rt_loop" ELSE "m_idle"
    /\ rcFrame = 0
    /\ rcTarget = 0
    /\ dtPc = "alive"
    /\ crashed = FALSE
    /\ nextFrame = 1
    /\ freed = [f \in 1..c.maxFrames |-> 0]
    /\ maxRendered = 0
    /\ misordered = FALSE
    /\ usedAfterFree = FALSE
    /\ hvMoved = 0
    /\ relaxAge = 0
    /\ ticks = 0
    /\ cleanups = 0
    /\ lastWakeUp = "none"

InitWith(c) ==
    /\ PacerInit(c)
    /\ m_VideoEnhancement = VideoEnhancementFresh
    /\ d3d12va = NoRenderer

Init == \E c \in Configs : InitWith(c)

\* ------------------------------------------------------- decoder thread
Running == ~crashed

\* The stream has caught up: no frame is queued or held by a thread.  In a
\* configuration with pacedAfter > 0 the frames after the first pacedAfter ones
\* arrive one at a time, each after the display has caught up with the stream
Drained ==
    /\ m_PacingQueue = <<>> /\ m_RenderQueue = <<>>
    /\ vsFrame = 0 /\ rcFrame = 0

\* Pacer::submitFrame, from lock() to the end of the relaxation countdown
\* (vsync source configured) or to the call of enqueueFrameForRenderingAndUnlock
SubmitFrameBegin ==
    /\ Running /\ dtPc = "alive"
    /\ decPc = "idle" /\ m_FrameQueueLock = "none"
    /\ nextFrame <= cfg.maxFrames
    /\ (cfg.pacedAfter > 0 /\ nextFrame > cfg.pacedAfter) => Drained
    /\ m_FrameQueueLock' = "dec"
    /\ decFrame' = nextFrame
    /\ nextFrame' = nextFrame + 1
    /\ IF cfg.vsync
       THEN /\ decPc' = "sf_enqueue"
            /\ IF m_OverloadRelaxationActive
               THEN LET rem == IF m_OverloadRelaxationFramesRemaining > 0
                               THEN m_OverloadRelaxationFramesRemaining - 1
                               ELSE m_OverloadRelaxationFramesRemaining
                    IN /\ m_OverloadRelaxationFramesRemaining' = rem
                       /\ relaxAge' = relaxAge + 1
                       /\ IF rem = 0
                          THEN /\ m_OverloadRelaxationActive' = FALSE
                               /\ m_EnqueueOverflowStreak' = 0
                               /\ m_EnqueueHealthyStreak' = 0
                          ELSE UNCHANGED <<m_OverloadRelaxationActive,
                                           m_EnqueueOverflowStreak, m_EnqueueHealthyStreak>>
               ELSE UNCHANGED <<relaxVars, relaxAge>>
       ELSE /\ decPc' = "sf_bypass"
            /\ UNCHANGED <<relaxVars, relaxAge>>
    /\ UNCHANGED <<cfg, queueVars, histVars, m_DeferredFreeFrame, m_Stopping,
                   m_DecoderBacklogStreak, pacerDroppedFrames, vsVars, rcVars, dtPc,
                   crashed, freed, renderGhosts, usedAfterFree, hvMoved, ticks, cleanups,
                   lastWakeUp, d3dVars>>

\* Pacer::submitFrame: dropFrameForEnqueue(m_PacingQueue); enqueue; unlock
SubmitFrameEnqueue ==
    /\ Running
    /\ decPc = "sf_enqueue" /\ m_FrameQueueLock = "dec"
    /\ LET d == DropFrameForEnqueue(m_PacingQueue)
       IN /\ m_PacingQueue' = Append(d.queue, decFrame)
          /\ freed' = FreeAll(freed, d.gone)
          /\ pacerDroppedFrames' = pacerDroppedFrames + Len(d.gone)
          /\ m_EnqueueOverflowStreak' = d.overflowStreak
          /\ m_EnqueueHealthyStreak' = d.healthyStreak
          /\ m_OverloadRelaxationActive' = d.active
          /\ m_OverloadRelaxationFramesRemaining' = d.remaining
          /\ relaxAge' = IF d.activated THEN 0 ELSE relaxAge
    /\ usedAfterFree' = (usedAfterFree \/ IsFreed(decFrame))
    /\ m_FrameQueueLock' = "none"
    /\ decPc' = "sf_wake"
    /\ decFrame' = 0
    /\ UNCHANGED <<cfg, m_RenderQueue, histVars, m_DeferredFreeFrame, m_Stopping,
                   m_DecoderBacklogStreak, vsVars, rcVars, dtPc, crashed, nextFrame,
                   renderGhosts, hvMoved, ticks, cleanups, lastWakeUp, d3dVars>>

\* Pacer::submitFrame: m_PacingQueueNotEmpty.wakeOne(), after the unlock
SubmitFrameWake ==
    /\ Running
    /\ decPc = "sf_wake"
    /\ decPc' = "idle"
    /\ vsPc' = IF vsPc = "hv_wait" THEN "hv_woken" ELSE vsPc
    /\ UNCHANGED <<cfg, m_FrameQueueLock, queueVars, histVars, m_DeferredFreeFrame,
                   m_Stopping, relaxVars, m_DecoderBacklogStreak, pacerDroppedFrames,
                   decFrame, vsFrame, vsTarget, rcVars, dtPc, crashed, nextFrame, freed,
                   renderGhosts, usedAfterFree, hvMoved, relaxAge, ticks, cleanups,
                   lastWakeUp, d3dVars>>

\* Pacer::enqueueFrameForRenderingAndUnlock(frame), up to and including unlock():
\* the part of the next state it determines.  freedBefore and dropsBefore carry
\* the frees and drops the caller made earlier in the same step.
EnqueueFrameForRenderingAndUnlock(frame, freedBefore, dropsBefore) ==
    LET d == DropFrameForEnqueue(m_RenderQueue)
    IN /\ m_RenderQueue' = Append(d.queue, frame)
       /\ freed' = FreeAll(freedBefore, d.gone)
       /\ pacerDroppedFrames' = pacerDroppedFrames + dropsBefore + Len(d.gone)
       /\ m_EnqueueOverflowStreak' = d.overflowStreak
       /\ m_EnqueueHealthyStreak' = d.healthyStreak
       /\ m_OverloadRelaxationActive' = d.active
       /\ m_OverloadRelaxationFramesRemaining' = d.remaining
       /\ relaxAge' = IF d.activated THEN 0 ELSE relaxAge
       /\ usedAfterFree' = (usedAfterFree \/ IsFreed(frame))
       /\ m_FrameQueueLock' = "none"

\* enqueueFrameForRenderingAndUnlock after unlock(): wakeOne() on
\* m_RenderQueueNotEmpty when a render thread exists, else SDL_PushEvent of
\* SDL_CODE_FRAME_READY
RenderWakeUp == IF cfg.renderThread THEN "wakeOne" ELSE "SDL_CODE_FRAME_READY"

\* Mutant of WakeRenderQueueNotEmpty: the wake-up never reaches the thread
WakeRenderQueueNotEmptyLost(pc) == pc

\* QWaitCondition::wakeOne / wakeAll on m_RenderQueueNotEmpty: the render
\* thread leaves its wait if it is in it; otherwise the wake-up is lost
WakeRenderQueueNotEmpty(pc) == IF pc = "rt_waiting" THEN "rt_woken" ELSE pc

\* QWaitCondition::wakeOne / wakeAll on m_PacingQueueNotEmpty
WakePacingQueueNotEmpty(pc) == IF pc = "hv_wait" THEN "hv_woken" ELSE pc

\* Mutant of SubmitFrameBypass: the frame goes to the Pacing Queue although
\* there is no V-sync source
SubmitFrameBypassToPacingQueue ==
    /\ Running
    /\ decPc = "sf_bypass" /\ m_FrameQueueLock = "dec"
    /\ m_PacingQueue' = Append(m_PacingQueue, decFrame)
    /\ m_FrameQueueLock' = "none"
    /\ decPc' = "sf_wake_rq"
    /\ decFrame' = 0
    /\ UNCHANGED <<cfg, m_RenderQueue, histVars, m_DeferredFreeFrame, m_Stopping, relaxVars,
                   m_DecoderBacklogStreak, pacerDroppedFrames, vsVars, rcVars, dtPc,
                   crashed, nextFrame, freed, renderGhosts, usedAfterFree, hvMoved,
                   relaxAge, ticks, cleanups, lastWakeUp, d3dVars>>

\* Pacer::submitFrame without a vsync source: enqueueFrameForRenderingAndUnlock(frame)
SubmitFrameBypass ==
    /\ Running
    /\ decPc = "sf_bypass" /\ m_FrameQueueLock = "dec"
    /\ EnqueueFrameForRenderingAndUnlock(decFrame, freed, 0)
    /\ decPc' = "sf_wake_rq"
    /\ decFrame' = 0
    /\ UNCHANGED <<cfg, m_PacingQueue, histVars, m_DeferredFreeFrame, m_Stopping,
                   m_DecoderBacklogStreak, vsVars, rcVars, dtPc, crashed, nextFrame,
                   renderGhosts, hvMoved, ticks, cleanups, lastWakeUp, d3dVars>>

\* enqueueFrameForRenderingAndUnlock after unlock(): wakeOne() for a render
\* thread, SDL_PushEvent(SDL_CODE_FRAME_READY) for main-thread rendering
SubmitFrameBypassWake ==
    /\ Running
    /\ decPc = "sf_wake_rq"
    /\ decPc' = "idle"
    /\ rcPc' = IF cfg.renderThread THEN WakeRenderQueueNotEmpty(rcPc) ELSE rcPc
    /\ lastWakeUp' = RenderWakeUp
    /\ UNCHANGED d3dVars
    /\ UNCHANGED <<cfg, m_FrameQueueLock, queueVars, histVars, m_DeferredFreeFrame,
                   m_Stopping, relaxVars, m_DecoderBacklogStreak, pacerDroppedFrames,
                   decFrame, vsVars, rcFrame, rcTarget, dtPc, crashed, nextFrame, freed,
                   renderGhosts, usedAfterFree, hvMoved, relaxAge, ticks, cleanups>>

\* Pacer::notifyDecoderBacklog(backlogFrames), up to the test of the activation
\* condition. It takes no lock, so the write-back is a step of its own.
NotifyDecoderBacklogReport(backlogFrames) ==
    LET streak == IF backlogFrames >= DECODER_BACKLOG_RELAX_THRESHOLD
                  THEN m_DecoderBacklogStreak + 1 ELSE 0
    IN /\ streak <= MaxBacklogStreak
       /\ IF ~m_OverloadRelaxationActive /\ streak >= DECODER_BACKLOG_RELAX_STREAK
          THEN /\ decPc' = "nb_activate"
               /\ m_DecoderBacklogStreak' = streak
          ELSE /\ decPc' = "idle"
               /\ m_DecoderBacklogStreak' = streak
               /\ m_DecoderBacklogStreak' # m_DecoderBacklogStreak

\* Pacer::notifyDecoderBacklog in a non-balanced mode, for any reported backlog
NotifyDecoderBacklogTest ==
    /\ Running /\ dtPc = "alive"
    /\ decPc = "idle"
    /\ cfg.backlogReports
    /\ cfg.mode # FPM_BALANCED
    /\ \E backlogFrames \in BacklogInputs : NotifyDecoderBacklogReport(backlogFrames)
    /\ UNCHANGED <<cfg, m_FrameQueueLock, queueVars, histVars, m_DeferredFreeFrame,
                   m_Stopping, relaxVars, pacerDroppedFrames, decFrame, vsVars, rcVars,
                   dtPc, crashed, nextFrame, freed, renderGhosts, usedAfterFree, hvMoved,
                   relaxAge, ticks, cleanups, lastWakeUp, d3dVars>>

\* Pacer::notifyDecoderBacklog: the body of the activation branch
NotifyDecoderBacklogActivate ==
    /\ Running
    /\ decPc = "nb_activate"
    /\ m_OverloadRelaxationActive' = TRUE
    /\ m_OverloadRelaxationFramesRemaining' =
          SDL_max(m_OverloadRelaxationFramesRemaining, OVERLOAD_RELAX_DURATION_FRAMES)
    /\ m_DecoderBacklogStreak' = 0
    /\ relaxAge' = IF m_OverloadRelaxationActive THEN relaxAge ELSE 0
    /\ decPc' = "idle"
    /\ UNCHANGED <<cfg, m_FrameQueueLock, queueVars, histVars, m_DeferredFreeFrame,
                   m_Stopping, m_EnqueueOverflowStreak, m_EnqueueHealthyStreak,
                   pacerDroppedFrames, decFrame, vsVars, rcVars, dtPc, crashed, nextFrame,
                   freed, renderGhosts, usedAfterFree, hvMoved, ticks, cleanups,
                   lastWakeUp, d3dVars>>

\* ---------------------------------------------------------- V-sync thread
\* Pacer::vsyncThread: while (!me->m_Stopping); the wait for V-sync returns
\* (waitForVsync(), signalVsync() or the 100 ms timeout); if (me->m_Stopping)
\* break; handleVsync(...) is entered
VsTick ==
    /\ Running
    /\ vsPc = "loop"
    /\ (cfg.tickLimited /\ ~m_Stopping) => ticks < cfg.maxTicks
    /\ ticks' = IF cfg.tickLimited /\ ~m_Stopping THEN ticks + 1 ELSE ticks
    /\ vsPc' = IF m_Stopping THEN "done" ELSE "hv_lock"
    /\ UNCHANGED <<cfg, m_FrameQueueLock, queueVars, histVars, m_DeferredFreeFrame,
                   m_Stopping, relaxVars, m_DecoderBacklogStreak, pacerDroppedFrames,
                   decVars, vsFrame, vsTarget, rcVars, dtPc, crashed, nextFrame, freed,
                   renderGhosts, usedAfterFree, hvMoved, relaxAge, cleanups, lastWakeUp, d3dVars>>

\* Mutant of PacingFrameDropTarget: always strict
PacingFrameDropTargetStrict == MAX_QUEUED_FRAMES_ULTRA_LOW

\* Pacer::handleVsync: frameDropTarget
PacingFrameDropTarget ==
    IF cfg.maxVideoFps >= cfg.displayFps
       /\ \E i \in 1..Len(m_PacingQueueHistory) : m_PacingQueueHistory[i] <= 1
    THEN 3 ELSE 1

\* QQueue<int>::dequeue() on a history: the oldest sample is removed.  On an
\* empty history the call is undefined; where it returns, the history is still
\* empty
DequeueHistory(history) == IF history = <<>> THEN history ELSE Tail(history)

\* what a history dequeue() can do: undefined on an empty history (the process
\* dies, or in a build that reads the stale slot, cfg.staleRead, it returns)
HistoryDequeueOutcomes(onEmpty) ==
    IF onEmpty
    THEN {"crash"} \cup (IF cfg.staleRead THEN {"returns"} ELSE {})
    ELSE {"returns"}

\* Pacer::handleVsync: m_PacingQueueHistory.dequeue() is called on an empty
\* history (count() == m_DisplayFps / 2 with both 0)
PacingHistoryEvictsEmpty ==
    /\ cfg.maxVideoFps >= cfg.displayFps
    /\ Len(m_PacingQueueHistory) = cfg.displayFps \div 2
    /\ m_PacingQueueHistory = <<>>

\* Pacer::handleVsync: the rolling window of pacing queue history
PacingHistoryAfter ==
    IF cfg.maxVideoFps >= cfg.displayFps
    THEN Append(IF Len(m_PacingQueueHistory) = cfg.displayFps \div 2
                THEN DequeueHistory(m_PacingQueueHistory) ELSE m_PacingQueueHistory,
                Len(m_PacingQueue))
    ELSE m_PacingQueueHistory

\* Pacer::handleVsync with the lock held, from the test of the catch-up loop:
\* drop one more frame (releasing the lock to free it), or wait on the empty
\* queue, or move the first frame to the render queue.  held is the frame the
\* previous pass dequeued and freed before taking the lock again (0: none).
HvContinue(target, held) ==
    LET drops == IF held = 0 THEN 0 ELSE 1
        afterFree == FreeAll(freed, <<held>>)
    IN
    /\ vsTarget' = target
    /\ IF Len(m_PacingQueue) > target
       THEN /\ vsFrame' = Head(m_PacingQueue)
            /\ m_PacingQueue' = Tail(m_PacingQueue)
            /\ m_FrameQueueLock' = "none"
            /\ vsPc' = "hv_dropfree"
            /\ freed' = afterFree
            /\ pacerDroppedFrames' = pacerDroppedFrames + drops
            /\ UNCHANGED <<m_RenderQueue, relaxVars, relaxAge, usedAfterFree, hvMoved>>
       ELSE IF m_PacingQueue = <<>>
       THEN /\ vsPc' = "hv_wait"
            /\ m_FrameQueueLock' = "none"
            /\ vsFrame' = 0
            /\ freed' = afterFree
            /\ pacerDroppedFrames' = pacerDroppedFrames + drops
            /\ UNCHANGED <<queueVars, relaxVars, relaxAge, usedAfterFree, hvMoved>>
       ELSE /\ EnqueueFrameForRenderingAndUnlock(Head(m_PacingQueue), afterFree, drops)
            /\ m_PacingQueue' = Tail(m_PacingQueue)
            /\ hvMoved' = hvMoved + 1
            /\ vsPc' = "hv_wake"
            /\ vsFrame' = 0

\* Pacer::handleVsync: lock(), frameDropTarget, history, first pass of the loop
HvLock ==
    /\ Running
    /\ vsPc = "hv_lock" /\ m_FrameQueueLock = "none"
    /\ hvMoved = 0
    /\ \E outcome \in HistoryDequeueOutcomes(PacingHistoryEvictsEmpty) :
         IF outcome = "crash"
         THEN /\ crashed' = TRUE
              /\ UNCHANGED <<m_PacingQueueHistory, m_FrameQueueLock, queueVars, vsVars,
                             freed, pacerDroppedFrames, relaxVars, relaxAge,
                             usedAfterFree, hvMoved>>
         ELSE /\ m_PacingQueueHistory' = PacingHistoryAfter
              /\ HvContinue(PacingFrameDropTarget, 0)
              /\ UNCHANGED crashed
    /\ UNCHANGED <<cfg, m_RenderQueueHistory, m_DeferredFreeFrame, m_Stopping,
                   m_DecoderBacklogStreak, decVars, rcVars, dtPc, nextFrame,
                   renderGhosts, ticks, cleanups, lastWakeUp, d3dVars>>

\* Pacer::handleVsync, body of the catch-up loop after unlock():
\* pacerDroppedFrames++; av_frame_free(&frame); lock(); next pass of the loop
HvDropFree ==
    /\ Running
    /\ vsPc = "hv_dropfree" /\ m_FrameQueueLock = "none"
    /\ HvContinue(vsTarget, vsFrame)
    /\ UNCHANGED <<cfg, histVars, m_DeferredFreeFrame, m_Stopping,
                   m_DecoderBacklogStreak, decVars, rcVars, dtPc, crashed, nextFrame,
                   renderGhosts, ticks, cleanups, lastWakeUp, d3dVars>>

\* Pacer::handleVsync: the timed wait on m_PacingQueueNotEmpty returns false
HvTimeout ==
    /\ Running
    /\ vsPc = "hv_wait" /\ m_FrameQueueLock = "none"
    /\ vsPc' = "loop"
    /\ hvMoved' = 0
    /\ UNCHANGED <<cfg, m_FrameQueueLock, queueVars, histVars, m_DeferredFreeFrame,
                   m_Stopping, relaxVars, m_DecoderBacklogStreak, pacerDroppedFrames,
                   decVars, vsFrame, vsTarget, rcVars, dtPc, crashed, nextFrame, freed,
                   renderGhosts, usedAfterFree, relaxAge, ticks, cleanups, lastWakeUp, d3dVars>>

\* Pacer::handleVsync: the wait returned true; m_Stopping test; then
\* enqueueFrameForRenderingAndUnlock(m_PacingQueue.dequeue()).  dequeue() on an
\* empty QQueue is undefined: the process dies (failed Q_ASSERT, invalid access),
\* or, in a build whose takeFirst() reads the slot behind the last element
\* (cfg.staleRead), the pointer of a frame that was in the queue earlier is
\* returned and the queue stays empty.
HvWoken ==
    /\ Running
    /\ vsPc = "hv_woken" /\ m_FrameQueueLock = "none"
    /\ IF m_Stopping
       THEN /\ vsPc' = "loop"
            /\ hvMoved' = 0
            /\ UNCHANGED <<m_FrameQueueLock, queueVars, freed, pacerDroppedFrames,
                           relaxVars, relaxAge, usedAfterFree, crashed>>
       ELSE IF m_PacingQueue # <<>>
       THEN /\ EnqueueFrameForRenderingAndUnlock(Head(m_PacingQueue), freed, 0)
            /\ m_PacingQueue' = Tail(m_PacingQueue)
            /\ hvMoved' = hvMoved + 1
            /\ vsPc' = "hv_wake"
            /\ UNCHANGED crashed
       ELSE \/ /\ crashed' = TRUE
               /\ UNCHANGED <<vsPc, hvMoved, m_FrameQueueLock, queueVars, freed,
                              pacerDroppedFrames, relaxVars, relaxAge, usedAfterFree>>
            \/ \E stale \in 1..(nextFrame - 1) :
                 /\ cfg.staleRead
                 /\ EnqueueFrameForRenderingAndUnlock(stale, freed, 0)
                 /\ hvMoved' = hvMoved + 1
                 /\ vsPc' = "hv_wake"
                 /\ UNCHANGED <<m_PacingQueue, crashed>>
    /\ UNCHANGED <<cfg, histVars, m_DeferredFreeFrame, m_Stopping,
                   m_DecoderBacklogStreak, decVars, vsFrame, vsTarget, rcVars, dtPc,
                   nextFrame, renderGhosts, ticks, cleanups, lastWakeUp, d3dVars>>

\* Mutant of HvWake: handleVsync goes round again while frames are queued
HvWakeAndRepeat ==
    /\ Running
    /\ vsPc = "hv_wake"
    /\ vsPc' = IF m_PacingQueue # <<>> THEN "hv_dropfree" ELSE "loop"
    /\ hvMoved' = IF m_PacingQueue # <<>> THEN hvMoved ELSE 0
    /\ rcPc' = IF cfg.renderThread THEN WakeRenderQueueNotEmpty(rcPc) ELSE rcPc
    /\ lastWakeUp' = RenderWakeUp
    /\ UNCHANGED d3dVars
    /\ UNCHANGED <<cfg, m_FrameQueueLock, queueVars, histVars, m_DeferredFreeFrame,
                   m_Stopping, relaxVars, m_DecoderBacklogStreak, pacerDroppedFrames,
                   decVars, vsFrame, vsTarget, rcFrame, rcTarget, dtPc, crashed, nextFrame,
                   freed, renderGhosts, usedAfterFree, relaxAge, ticks, cleanups>>

\* enqueueFrameForRenderingAndUnlock after unlock(), called by handleVsync
HvWake ==
    /\ Running
    /\ vsPc = "hv_wake"
    /\ vsPc' = "loop"
    /\ hvMoved' = 0
    /\ rcPc' = IF cfg.renderThread THEN WakeRenderQueueNotEmpty(rcPc) ELSE rcPc
    /\ lastWakeUp' = RenderWakeUp
    /\ UNCHANGED d3dVars
    /\ UNCHANGED <<cfg, m_FrameQueueLock, queueVars, histVars, m_DeferredFreeFrame,
                   m_Stopping, relaxVars, m_DecoderBacklogStreak, pacerDroppedFrames,
                   decVars, vsFrame, vsTarget, rcFrame, rcTarget, dtPc, crashed, nextFrame,
                   freed, renderGhosts, usedAfterFree, relaxAge, ticks, cleanups>>

\* --------------------------------- render thread / main-thread rendering
\* Pacer::renderThread: while (!me->m_Stopping), then
\* m_VsyncRenderer->waitToRender() returns
RtLoopTest ==
    /\ Running
    /\ rcPc = "rt_loop"
    /\ rcPc' = IF m_Stopping THEN "done" ELSE "rt_lock"
    /\ cleanups' = IF m_Stopping THEN cleanups + 1 ELSE cleanups
    /\ UNCHANGED <<cfg, m_FrameQueueLock, queueVars, histVars, m_DeferredFreeFrame,
                   m_Stopping, relaxVars, m_DecoderBacklogStreak, pacerDroppedFrames,
                   decVars, vsVars, rcFrame, rcTarget, dtPc, crashed, nextFrame, freed,
                   renderGhosts, usedAfterFree, hvMoved, relaxAge, ticks, lastWakeUp, d3dVars>>

\* Pacer::renderThread: lock() (or the wait re-acquiring the mutex), the test
\* "while (!m_Stopping && m_RenderQueue.isEmpty())", then the exit (with
\* cleanupRenderContext()), or the dequeue
RtLock ==
    /\ Running
    /\ rcPc \in {"rt_lock", "rt_woken"} /\ m_FrameQueueLock = "none"
    /\ IF ~m_Stopping /\ m_RenderQueue = <<>>
       THEN /\ rcPc' = "rt_waitcall"
            /\ m_FrameQueueLock' = "rc"
            /\ UNCHANGED <<m_RenderQueue, rcFrame, cleanups>>
       ELSE IF m_Stopping
       THEN /\ rcPc' = "done"
            /\ cleanups' = cleanups + 1
            /\ UNCHANGED <<m_FrameQueueLock, m_RenderQueue, rcFrame>>
       ELSE /\ rcFrame' = Head(m_RenderQueue)
            /\ m_RenderQueue' = Tail(m_RenderQueue)
            /\ rcPc' = "rf_render"
            /\ UNCHANGED <<m_FrameQueueLock, cleanups>>
    /\ UNCHANGED <<cfg, m_PacingQueue, histVars, m_DeferredFreeFrame, m_Stopping,
                   relaxVars, m_DecoderBacklogStreak, pacerDroppedFrames, decVars, vsVars,
                   rcTarget, dtPc, crashed, nextFrame, freed, renderGhosts, usedAfterFree,
                   hvMoved, relaxAge, ticks, lastWakeUp, d3dVars>>

\* Mutant of RtWait: a wait that sleeps without releasing the mutex
RtWaitKeepsMutex ==
    /\ Running
    /\ rcPc = "rt_waitcall" /\ m_FrameQueueLock = "rc"
    /\ rcPc' = "rt_waiting"
    /\ UNCHANGED <<cfg, m_FrameQueueLock, queueVars, histVars, m_DeferredFreeFrame,
                   m_Stopping, relaxVars, m_DecoderBacklogStreak, pacerDroppedFrames,
                   decVars, vsVars, rcFrame, rcTarget, dtPc, crashed, nextFrame, freed,
                   renderGhosts, usedAfterFree, hvMoved, relaxAge, ticks, cleanups,
                   lastWakeUp, d3dVars>>

\* Pacer::renderThread: m_RenderQueueNotEmpty.wait(&m_FrameQueueLock) is entered:
\* the mutex is released and the thread sleeps until a wakeOne/wakeAll
RtWait ==
    /\ Running
    /\ rcPc = "rt_waitcall" /\ m_FrameQueueLock = "rc"
    /\ rcPc' = "rt_waiting"
    /\ m_FrameQueueLock' = "none"
    /\ UNCHANGED <<cfg, queueVars, histVars, m_DeferredFreeFrame, m_Stopping, relaxVars,
                   m_DecoderBacklogStreak, pacerDroppedFrames, decVars, vsVars, rcFrame,
                   rcTarget, dtPc, crashed, nextFrame, freed, renderGhosts, usedAfterFree,
                   hvMoved, relaxAge, ticks, cleanups, lastWakeUp, d3dVars>>

\* Pacer::renderOnMainThread: the branch that finds a frame (the other branch
\* locks and unlocks without any effect)
RenderOnMainThread ==
    /\ Running /\ dtPc = "alive"
    /\ ~cfg.renderThread
    /\ rcPc = "m_idle" /\ m_FrameQueueLock = "none"
    /\ m_RenderQueue # <<>>
    /\ rcFrame' = Head(m_RenderQueue)
    /\ m_RenderQueue' = Tail(m_RenderQueue)
    /\ rcPc' = "rf_render"
    /\ UNCHANGED <<cfg, m_FrameQueueLock, m_PacingQueue, histVars, m_DeferredFreeFrame,
                   m_Stopping, relaxVars, m_DecoderBacklogStreak, pacerDroppedFrames,
                   decVars, vsVars, rcTarget, dtPc, crashed, nextFrame, freed,
                   renderGhosts, usedAfterFree, hvMoved, relaxAge, ticks, cleanups,
                   lastWakeUp, d3dVars>>

\* Pacer::renderFrame: m_VsyncRenderer->renderFrame(frame) returns, then
\* std::swap(frame, m_DeferredFreeFrame); av_frame_free(&frame)
RenderFrameCall ==
    /\ Running
    /\ rcPc = "rf_render"
    /\ maxRendered' = SDL_max(maxRendered, rcFrame)
    /\ misordered' = (misordered \/ rcFrame < maxRendered)
    /\ usedAfterFree' = (usedAfterFree \/ IsFreed(rcFrame))
    /\ freed' = FreeAll(freed, <<m_DeferredFreeFrame>>)
    /\ m_DeferredFreeFrame' = rcFrame
    /\ rcFrame' = 0
    /\ rcPc' = "rf_lock"
    /\ UNCHANGED <<cfg, m_FrameQueueLock, queueVars, histVars, m_Stopping, relaxVars,
                   m_DecoderBacklogStreak, pacerDroppedFrames, decVars, vsVars, rcTarget,
                   dtPc, crashed, nextFrame, hvMoved, relaxAge, ticks, cleanups,
                   lastWakeUp, d3dVars>>

\* Mutant of RenderFrameDropTarget: always lenient
RenderFrameDropTargetLenient == MAX_QUEUED_FRAMES_LOW_LATENCY

\* Pacer::renderFrame: frameDropTarget
RenderFrameDropTarget ==
    IF cfg.noBuffering THEN 1
    ELSE IF \E i \in 1..Len(m_RenderQueueHistory) : m_RenderQueueHistory[i] = 0
    THEN 2 ELSE 0

\* Pacer::renderFrame: m_RenderQueueHistory.dequeue() is called on an empty
\* history (count() == m_MaxVideoFps / 2 with both 0)
RenderHistoryEvictsEmpty ==
    /\ ~cfg.noBuffering
    /\ Len(m_RenderQueueHistory) = cfg.maxVideoFps \div 2
    /\ m_RenderQueueHistory = <<>>

\* Pacer::renderFrame: the rolling window of render queue history
RenderHistoryAfter ==
    IF cfg.noBuffering THEN m_RenderQueueHistory
    ELSE Append(IF Len(m_RenderQueueHistory) = cfg.maxVideoFps \div 2
                THEN DequeueHistory(m_RenderQueueHistory) ELSE m_RenderQueueHistory,
                Len(m_RenderQueue))

\* Pacer::renderFrame with the lock held, from the test of the catch-up loop
RfContinue(target) ==
    /\ rcTarget' = target
    /\ m_FrameQueueLock' = "none"
    /\ IF Len(m_RenderQueue) > target
       THEN /\ rcFrame' = Head(m_RenderQueue)
            /\ m_RenderQueue' = Tail(m_RenderQueue)
            /\ rcPc' = "rf_dropfree"
       ELSE /\ rcPc' = IF cfg.renderThread THEN "rt_loop" ELSE "m_idle"
            /\ rcFrame' = 0
            /\ UNCHANGED m_RenderQueue

\* Pacer::renderFrame: lock(), frameDropTarget, history, first pass of the loop
RfLock ==
    /\ Running
    /\ rcPc = "rf_lock" /\ m_FrameQueueLock = "none"
    /\ \E outcome \in HistoryDequeueOutcomes(RenderHistoryEvictsEmpty) :
         IF outcome = "crash"
         THEN /\ crashed' = TRUE
              /\ UNCHANGED <<m_RenderQueueHistory, m_FrameQueueLock, m_RenderQueue, rcVars>>
         ELSE /\ m_RenderQueueHistory' = RenderHistoryAfter
              /\ RfContinue(RenderFrameDropTarget)
              /\ UNCHANGED crashed
    /\ UNCHANGED <<cfg, m_PacingQueue, m_PacingQueueHistory, m_DeferredFreeFrame,
                   m_Stopping, relaxVars, m_DecoderBacklogStreak, pacerDroppedFrames,
                   decVars, vsVars, dtPc, nextFrame, freed, renderGhosts,
                   usedAfterFree, hvMoved, relaxAge, ticks, cleanups, lastWakeUp, d3dVars>>

\* Pacer::renderFrame, body of the catch-up loop after unlock():
\* pacerDroppedFrames++; av_frame_free(&frame); lock(); next pass of the loop
RfDropFree ==
    /\ Running
    /\ rcPc = "rf_dropfree" /\ m_FrameQueueLock = "none"
    /\ pacerDroppedFrames' = pacerDroppedFrames + 1
    /\ \E afterFree \in {FreeAll(freed, <<rcFrame>>)} :
         /\ freed' = afterFree
         /\ RfContinue(rcTarget)
    /\ UNCHANGED <<cfg, m_PacingQueue, histVars, m_DeferredFreeFrame, m_Stopping,
                   relaxVars, m_DecoderBacklogStreak, decVars, vsVars, dtPc, crashed,
                   nextFrame, renderGhosts, usedAfterFree, hvMoved, relaxAge, ticks,
                   cleanups, lastWakeUp, d3dVars>>

\* ------------------------------------------------------------- Pacer::~Pacer
\* m_Stopping = true.  The decoder has stopped submitting by then; without a
\* render thread the destructor runs on the thread that renders.
DtorStop ==
    /\ Running
    /\ dtPc = "alive"
    /\ decPc = "idle"
    /\ cfg.renderThread \/ rcPc = "m_idle"
    /\ m_Stopping' = TRUE
    /\ dtPc' = IF vsPc # "none" THEN "d_wake_vs" ELSE "d_rt"
    /\ UNCHANGED <<cfg, m_FrameQueueLock, queueVars, histVars, m_DeferredFreeFrame,
                   relaxVars, m_DecoderBacklogStreak, pacerDroppedFrames, decVars, vsVars,
                   rcVars, crashed, nextFrame, freed, renderGhosts, usedAfterFree, hvMoved,
                   relaxAge, ticks, cleanups, lastWakeUp, d3dVars>>

\* m_PacingQueueNotEmpty.wakeAll(); m_VsyncSignalled.wakeAll()
DtorWakeVsync ==
    /\ Running
    /\ dtPc = "d_wake_vs"
    /\ vsPc' = WakePacingQueueNotEmpty(vsPc)
    /\ dtPc' = "d_join_vs"
    /\ UNCHANGED <<cfg, m_FrameQueueLock, queueVars, histVars, m_DeferredFreeFrame,
                   m_Stopping, relaxVars, m_DecoderBacklogStreak, pacerDroppedFrames,
                   decVars, vsFrame, vsTarget, rcVars, crashed, nextFrame, freed,
                   renderGhosts, usedAfterFree, hvMoved, relaxAge, ticks, cleanups,
                   lastWakeUp, d3dVars>>

\* SDL_WaitThread(m_VsyncThread) returns; delete m_VsyncSource; then, like
\* DtorStopRender, the render thread is woken or the render context cleaned up
DtorJoinVsync ==
    /\ Running
    /\ dtPc = "d_join_vs"
    /\ vsPc = "done"
    /\ IF cfg.renderThread
       THEN /\ rcPc' = WakeRenderQueueNotEmpty(rcPc)
            /\ dtPc' = "d_join_rt"
            /\ UNCHANGED cleanups
       ELSE /\ cleanups' = cleanups + 1
            /\ rcPc' = "done"
            /\ dtPc' = "d_drain"
    /\ UNCHANGED <<cfg, m_FrameQueueLock, queueVars, histVars, m_DeferredFreeFrame,
                   m_Stopping, relaxVars, m_DecoderBacklogStreak, pacerDroppedFrames,
                   decVars, vsVars, rcFrame, rcTarget, crashed, nextFrame, freed,
                   renderGhosts, usedAfterFree, hvMoved, relaxAge, ticks, lastWakeUp, d3dVars>>

\* ~Pacer that calls cleanupRenderContext() itself even with a render thread
DtorStopRenderAlwaysCleans ==
    /\ Running
    /\ dtPc = "d_rt"
    /\ IF cfg.renderThread
       THEN /\ rcPc' = WakeRenderQueueNotEmpty(rcPc)
            /\ dtPc' = "d_join_rt"
            /\ cleanups' = cleanups + 1
       ELSE /\ cleanups' = cleanups + 1
            /\ rcPc' = "done"
            /\ dtPc' = "d_drain"
    /\ UNCHANGED <<cfg, m_FrameQueueLock, queueVars, histVars, m_DeferredFreeFrame,
                   m_Stopping, relaxVars, m_DecoderBacklogStreak, pacerDroppedFrames,
                   decVars, vsVars, rcFrame, rcTarget, crashed, nextFrame, freed,
                   renderGhosts, usedAfterFree, hvMoved, relaxAge, ticks, lastWakeUp, d3dVars>>

\* Without a V-sync thread: m_RenderQueueNotEmpty.wakeAll() for a render thread;
\* otherwise m_VsyncRenderer->cleanupRenderContext() on this thread
DtorStopRender ==
    /\ Running
    /\ dtPc = "d_rt"
    /\ IF cfg.renderThread
       THEN /\ rcPc' = WakeRenderQueueNotEmpty(rcPc)
            /\ dtPc' = "d_join_rt"
            /\ UNCHANGED cleanups
       ELSE /\ cleanups' = cleanups + 1
            /\ rcPc' = "done"
            /\ dtPc' = "d_drain"
    /\ UNCHANGED <<cfg, m_FrameQueueLock, queueVars, histVars, m_DeferredFreeFrame,
                   m_Stopping, relaxVars, m_DecoderBacklogStreak, pacerDroppedFrames,
                   decVars, vsVars, rcFrame, rcTarget, crashed, nextFrame, freed,
                   renderGhosts, usedAfterFree, hvMoved, relaxAge, ticks, lastWakeUp, d3dVars>>

\* SDL_WaitThread(m_RenderThread) returns
DtorJoinRender ==
    /\ Running
    /\ dtPc = "d_join_rt"
    /\ rcPc = "done"
    /\ dtPc' = "d_drain"
    /\ UNCHANGED <<cfg, m_FrameQueueLock, queueVars, histVars, m_DeferredFreeFrame,
                   m_Stopping, relaxVars, m_DecoderBacklogStreak, pacerDroppedFrames,
                   decVars, vsVars, rcVars, crashed, nextFrame, freed, renderGhosts,
                   usedAfterFree, hvMoved, relaxAge, ticks, cleanups, lastWakeUp, d3dVars>>

\* "Delete any remaining unconsumed frames": both queues and the deferred frame
DtorDrain ==
    /\ Running
    /\ dtPc = "d_drain"
    /\ freed' = FreeAll(freed, m_RenderQueue \o m_PacingQueue \o <<m_DeferredFreeFrame>>)
    /\ m_RenderQueue' = <<>>
    /\ m_PacingQueue' = <<>>
    /\ m_DeferredFreeFrame' = 0
    /\ dtPc' = "d_done"
    /\ UNCHANGED <<cfg, m_FrameQueueLock, histVars, m_Stopping, relaxVars,
                   m_DecoderBacklogStreak, pacerDroppedFrames, decVars, vsVars, rcVars,
                   crashed, nextFrame, renderGhosts, usedAfterFree, hvMoved, relaxAge,
                   ticks, cleanups, lastWakeUp, d3dVars>>

DecoderStep ==
    \/ SubmitFrameBegin \/ SubmitFrameEnqueue \/ SubmitFrameWake
    \/ SubmitFrameBypass \/ SubmitFrameBypassWake
    \/ NotifyDecoderBacklogTest \/ NotifyDecoderBacklogActivate

VsyncStep ==
    \/ VsTick \/ HvLock \/ HvDropFree
    \/ HvTimeout \/ HvWoken \/ HvWake

RenderStep ==
    \/ RtLoopTest \/ RtLock \/ RtWait \/ RenderOnMainThread
    \/ RenderFrameCall \/ RfLock \/ RfDropFree

DtorStep ==
    \/ DtorStop \/ DtorWakeVsync \/ DtorJoinVsync \/ DtorStopRender
    \/ DtorJoinRender \/ DtorDrain

Next == DecoderStep \/ VsyncStep \/ RenderStep \/ DtorStep

Spec == Init /\ [][Next]_vars

\* ------------------------------------------- shutdown under fair scheduling
\* Short runs of three configurations: paced with a render thread, paced with
\* main-thread rendering and backlog reports, unpaced with a render thread
LiveConfigs ==
    {Config(FPM_BALANCED, TRUE, TRUE, 2, TRUE, FALSE, FALSE, MaxFramesLive),
     Config(FPM_ULTRA_LOW, TRUE, FALSE, 2, TRUE, FALSE, TRUE, MaxFramesLive),
     Config(FPM_BALANCED, FALSE, TRUE, 3, FALSE, FALSE, FALSE, MaxFramesLive)}

InitLive == \E c \in LiveConfigs : InitWith(c)

\* Every thread that can take a step eventually takes one: the V-sync thread
\* (its waits are timed), the render thread (waitToRender() and renderFrame()
\* return), the destructor, and a decoder call that has begun.  Whether the
\* decoder submits another frame is left open.
LiveFairness ==
    /\ WF_vars(VsyncStep)
    /\ WF_vars(RenderStep)
    /\ WF_vars(DtorStep)
    /\ WF_vars(SubmitFrameEnqueue \/ SubmitFrameWake \/ SubmitFrameBypass
               \/ SubmitFrameBypassWake \/ NotifyDecoderBacklogActivate)

SpecLive == InitLive /\ [][Next]_vars /\ LiveFairness

\* ----------------------------------- long runs of the relaxation machine
\* The decoder and the V-sync thread only, over runs long enough for the
\* relaxation thresholds and durations; the V-sync thread services at most
\* maxTicks ticks, at any moment of the run.  The longest runs are pure
\* submission bursts (no tick serviced); the runs with ticks are shorter.
RelaxConfig(mode, vsync, backlogReports, maxFrames, maxTicks) ==
    [Config(mode, vsync, TRUE, 2, TRUE, FALSE, backlogReports, maxFrames)
        EXCEPT !.tickLimited = TRUE, !.maxTicks = maxTicks]

RelaxConfigs ==
    {RelaxConfig(FPM_LOW_LATENCY, TRUE, FALSE, MaxFramesRelax, 0),
     RelaxConfig(FPM_LOW_LATENCY, TRUE, FALSE, MaxFramesTicked, MaxTicksRelax),
     RelaxConfig(FPM_LOW_LATENCY, TRUE, TRUE, MaxFramesRelax, 0),
     RelaxConfig(FPM_ULTRA_LOW, TRUE, FALSE, MaxFramesBurst, 0),
     RelaxConfig(FPM_ULTRA_LOW, TRUE, FALSE, MaxFramesTicked, MaxTicksRelax),
     RelaxConfig(FPM_ULTRA_LOW, TRUE, TRUE, MaxFramesBurst, 0),
     RelaxConfig(FPM_LOW_LATENCY, FALSE, FALSE, MaxFramesBurst, 0),
     RelaxConfig(FPM_BALANCED, TRUE, TRUE, MaxFramesBurst, 0),
     RelaxConfig(FPM_BALANCED, TRUE, FALSE, MaxFramesTicked, MaxTicksRelax),
     RelaxConfig(FPM_BALANCED, FALSE, TRUE, MaxFramesBurst, 0)}

InitRelax == \E c \in RelaxConfigs : InitWith(c)

NextRelax == DecoderStep \/ VsyncStep

SpecRelax == InitRelax /\ [][NextRelax]_vars

\* --------------------------------- D3D12VARenderer: resolving the pipeline
\* RenderStep values are written as their enumerator names; "NONE" is
\* RenderStep::NONE.  Memory sizes are in MiB.
Vendors == {"AMD", "Intel", "NVIDIA", "other"}

SuperResolutionModes ==
    {"SRM_00", "SRM_01", "SRM_02", "SRM_03", "SRM_04", "SRM_05", "SRM_06"}

\* m_AdapterDesc of an integrated and of a discrete adapter
Adapters ==
    {[SharedSystemMemory |-> 8192, DedicatedVideoMemory |-> 512],
     [SharedSystemMemory |-> 256, DedicatedVideoMemory |-> 8192]}

\* everything enhanceAutoSelection() and the video-processor set-up of
\* initialize() read: the adapter, the power status, the preferences, the
\* stream, and what the driver answers to each probe
AllInputs ==
    [vendor : Vendors, adapter : Adapters, onBattery : BOOLEAN,
     superResolutionMode : SuperResolutionModes,
     m_IsDecoderHDR : BOOLEAN, m_IsDisplayHDRenabled : BOOLEAN, m_yuv444 : BOOLEAN,
     edgeEnhancement : BOOLEAN,     \* m_EdgeEnhancementValue > 0
     shader62support : BOOLEAN,     \* isShader62supported()
     rtx : BOOLEAN,                 \* " RTX " in the description or mesh shaders
     probeVSR : BOOLEAN,            \* the AMF / NGX VSR feature can be created
     probeHDR : BOOLEAN,            \* the NGX TrueHDR feature can be created
     m_VideoProcessorConvertEnabled : BOOLEAN,
     m_VideoProcessorUpscalerEnabled : BOOLEAN]

\* a probe of a vendor's library has an answer only on that vendor's adapters
ResolveInputs ==
    {in \in AllInputs :
        /\ in.rtx => in.vendor = "NVIDIA"
        /\ in.probeHDR => in.vendor = "NVIDIA"
        /\ in.probeVSR => in.vendor \in {"AMD", "NVIDIA"}}

IsIntegratedGPU(adapter) ==
    adapter.SharedSystemMemory >= 512 /\ adapter.DedicatedVideoMemory <= 2048

isNvidiaVSRSupport(in) == in.vendor = "NVIDIA" /\ in.rtx

\* enable<Vendor>VideoSuperResolution(false): Intel has none, AMD and NVIDIA
\* report whether the feature could be created
enableVideoSuperResolution(in) ==
    CASE in.vendor = "AMD" -> in.probeVSR
      [] in.vendor = "Intel" -> FALSE
      [] in.vendor = "NVIDIA" -> in.probeVSR

\* enable<Vendor>HDR(false): only NVIDIA has the feature
enableHDR(in) ==
    CASE in.vendor = "AMD" -> FALSE
      [] in.vendor = "Intel" -> FALSE
      [] in.vendor = "NVIDIA" -> in.probeHDR

Steps(step1, step2, hdr) ==
    [m_RenderStep1 |-> step1, m_RenderStep2 |-> step2, m_VendorHDRenabled |-> hdr]

\* the estimated best fit per GPU vendor
VendorDefault(in) ==
    CASE in.vendor = "AMD" -> Steps("ALL_AMF", "NONE", FALSE)
      [] in.vendor = "Intel" ->
            IF IsIntegratedGPU(in.adapter)
            THEN Steps("ALL_VIDEOPROCESSOR", "SHARPEN_SHADER", FALSE)
            ELSE Steps("CONVERT_SHADER", "UPSCALE_SHADER", FALSE)
      [] in.vendor = "NVIDIA" ->
            IF isNvidiaVSRSupport(in)
            THEN Steps("CONVERT_SHADER", "UPSCALE_VSR", FALSE)
            ELSE Steps("CONVERT_SHADER", "UPSCALE_SHADER", FALSE)
      [] OTHER -> Steps("ALL_VIDEOPROCESSOR", "NONE", FALSE)

\* the switch on m_Preferences->superResolutionMode; SRM_02..SRM_06 keep
\* m_VendorHDRenabled, SRM_00 (auto) keeps everything
UserOverride(in, d) ==
    CASE in.superResolutionMode = "SRM_01" ->
            (CASE in.vendor = "AMD" -> Steps("ALL_AMF", "NONE", FALSE)
               [] in.vendor = "Intel" -> Steps("ALL_VIDEOPROCESSOR", "CONVERT_SHADER", FALSE)
               [] in.vendor = "NVIDIA" -> Steps("CONVERT_SHADER", "UPSCALE_VSR", TRUE)
               [] OTHER -> Steps("ALL_VIDEOPROCESSOR", "NONE", TRUE))
      [] in.superResolutionMode = "SRM_02" ->
            Steps("ALL_VIDEOPROCESSOR", "NONE", d.m_VendorHDRenabled)
      [] in.superResolutionMode \in {"SRM_03", "SRM_04"} ->
            Steps("CONVERT_SHADER", "UPSCALE_SHADER", d.m_VendorHDRenabled)
      [] in.superResolutionMode \in {"SRM_05", "SRM_06"} ->
            Steps("ALL_VIDEOPROCESSOR", "SHARPEN_SHADER", d.m_VendorHDRenabled)
      [] OTHER -> d

\* "Correct VSR": VSR is on exactly when a step is run by the vendor's library
VendorSteps == {"ALL_AMF", "CONVERT_AMF", "UPSCALE_AMF", "UPSCALE_VSR"}

\* "Test VSR" storing a success whatever the probe returned
TestVSRIgnoresProbe(in, capable) == TRUE

\* "Test VSR" without its NVIDIA branch
TestVSRSkipsNvidia(in, capable) ==
    IF in.vendor \in {"AMD", "Intel"} THEN enableVideoSuperResolution(in) ELSE capable

\* m_VSRcapable after "Test VSR": a recognised vendor stores its probe, any
\* other vendor leaves the singleton as it was
TestVSR(in, capable) ==
    IF in.vendor \in {"AMD", "Intel", "NVIDIA"} THEN enableVideoSuperResolution(in)
                                                ELSE capable

\* m_HDRcapable after "Test HDR"
TestHDR(in, capable) ==
    IF in.vendor \in {"AMD", "Intel", "NVIDIA"} THEN enableHDR(in) ELSE capable

\* the 4:4:4 rewrite: the video processor converts instead of the shader
Yuv444Rewrite(in, step) ==
    IF in.m_yuv444 /\ step = "CONVERT_SHADER" THEN "CONVERT_VIDEOPROCESSOR" ELSE step

\* enhanceAutoSelection(): the members it leaves in the renderer and the
\* singleton it leaves behind.  m_VendorVSRenabled and m_EnhancerType are not
\* followed before "Correct VSR", which overwrites the former; the latter
\* selects a shader and no step.
EnhanceAutoSelection(in, ve) ==
    LET d2 == UserOverride(in, VendorDefault(in))
        d3 == IF in.m_IsDecoderHDR \/ ~in.m_IsDisplayHDRenabled
              THEN [d2 EXCEPT !.m_VendorHDRenabled = FALSE] ELSE d2
        d5 == IF ~in.shader62support THEN Steps("ALL_VIDEOPROCESSOR", "NONE", FALSE) ELSE d3
        vsr == d5.m_RenderStep1 \in VendorSteps \/ d5.m_RenderStep2 \in VendorSteps
        veV == IF vsr THEN [ve EXCEPT !.m_VSRcapable = TestVSR(in, ve.m_VSRcapable)] ELSE ve
        vsrEnabled == vsr /\ veV.m_VSRcapable
        d7 == IF vsr /\ ~vsrEnabled
              THEN Steps("ALL_VIDEOPROCESSOR", "NONE", d5.m_VendorHDRenabled) ELSE d5
        veH == IF d7.m_VendorHDRenabled
               THEN [veV EXCEPT !.m_HDRcapable = TestHDR(in, veV.m_HDRcapable)] ELSE veV
        hdrEnabled == d7.m_VendorHDRenabled /\ veH.m_HDRcapable
        step2 == IF d7.m_RenderStep1 = "ALL_VIDEOPROCESSOR" /\ in.edgeEnhancement
                 THEN "NONE" ELSE d7.m_RenderStep2
        step1x == Yuv444Rewrite(in, d7.m_RenderStep1)
        step2x == Yuv444Rewrite(in, step2)
    IN [m_RenderStep1 |-> step1x,
        m_RenderStep2 |-> step2x,
        m_SkipRenderStep2 |-> (step2x = "NONE"),
        m_VendorVSRenabled |-> vsrEnabled,
        m_VendorHDRenabled |-> hdrEnabled,
        m_IsIntegratedGPU |-> IsIntegratedGPU(in.adapter),
        m_IsOnBattery |-> in.onBattery,
        singleton |-> veH]

\* initialize(): "If VideoProcessor is not available we fallback to Shader".
\* m_SkipRenderStep2 is not computed again.
VideoProcessorFallback(in, r) ==
    LET a == IF in.m_VideoProcessorConvertEnabled THEN r
             ELSE LET s1 == CASE r.m_RenderStep1 = "CONVERT_VIDEOPROCESSOR" ->
                                    [r EXCEPT !.m_RenderStep1 = "CONVERT_SHADER"]
                              [] r.m_RenderStep1 = "ALL_VIDEOPROCESSOR" ->
                                    [r EXCEPT !.m_RenderStep1 = "CONVERT_SHADER",
                                              !.m_RenderStep2 = "UPSCALE_SHADER"]
                              [] OTHER -> r
                  IN IF s1.m_RenderStep2 = "CONVERT_VIDEOPROCESSOR"
                     THEN [s1 EXCEPT !.m_RenderStep2 = "CONVERT_SHADER"] ELSE s1
        b == IF in.m_VideoProcessorUpscalerEnabled THEN a
             ELSE LET s1 == IF a.m_RenderStep1 = "ALL_VIDEOPROCESSOR"
                            THEN [a EXCEPT
                                    !.m_RenderStep1 =
                                        IF in.m_yuv444 /\ in.m_VideoProcessorConvertEnabled
                                        THEN "CONVERT_VIDEOPROCESSOR" ELSE "CONVERT_SHADER",
                                    !.m_RenderStep2 = "UPSCALE_SHADER"]
                            ELSE a
                  IN IF s1.m_RenderStep2 = "UPSCALE_VIDEOPROCESSOR"
                     THEN [s1 EXCEPT !.m_RenderStep2 = "UPSCALE_SHADER"] ELSE s1
    IN b

\* the whole of initialize() as far as the pipeline goes: what
\* enhanceAutoSelection() selected and what the fallback made of it
ResolvePipeline(in, ve) ==
    LET sel == EnhanceAutoSelection(in, ve)
        fin == VideoProcessorFallback(in, sel)
    IN [selected |-> <<sel.m_RenderStep1, sel.m_RenderStep2>>,
        m_RenderStep1 |-> fin.m_RenderStep1,
        m_RenderStep2 |-> fin.m_RenderStep2,
        m_SkipRenderStep2 |-> fin.m_SkipRenderStep2,
        m_VendorVSRenabled |-> fin.m_VendorVSRenabled,
        m_VendorHDRenabled |-> fin.m_VendorHDRenabled]

\* the singleton after initialize(): "Initialize Upscaler" stores the HDR
\* probe of a recognised vendor once more
SingletonAfterInitialize(in, ve) ==
    LET after == EnhanceAutoSelection(in, ve).singleton
    IN [after EXCEPT !.m_HDRcapable = TestHDR(in, after.m_HDRcapable)]

\* ------------------------------ D3D12VARenderer::renderFrame: the two steps
\* the texture the RenderStep1 handler of renderFrame() writes; "none" when
\* renderFrame() has no RenderStep1 handler for the value
Step1Output(step1, skip2) ==
    CASE step1 = "ALL_VIDEOPROCESSOR" ->
            IF skip2 THEN "m_OutputTexture" ELSE "m_RGBTextureUpscaled"
      [] step1 = "CONVERT_VIDEOPROCESSOR" -> "m_RGBTexture"
      [] step1 = "CONVERT_SHADER" -> "m_RGBTexture"
      [] step1 = "ALL_AMF" -> IF skip2 THEN "m_OutputTexture" ELSE "m_RGBTextureUpscaled"
      [] step1 = "UPSCALE_AMF" -> "m_YUVTextureUpscaled"
      [] step1 = "CONVERT_AMF" -> "m_RGBTexture"
      [] OTHER -> "none"

\* the handlers that leave renderFrame()'s first step with "goto Draw"
Step1GoesToDraw(step1, skip2) == step1 \in {"ALL_VIDEOPROCESSOR", "ALL_AMF"} /\ skip2

\* the texture the RenderStep2 handler reads; "none" when there is no handler
\* and control falls through to Draw
Step2Input(step2) ==
    CASE step2 = "UPSCALE_VIDEOPROCESSOR" -> "m_RGBTexture"
      [] step2 = "UPSCALE_VSR" -> "m_RGBTexture"
      [] step2 = "UPSCALE_AMF" -> "m_RGBTexture"
      [] step2 = "CONVERT_AMF" -> "m_YUVTextureUpscaled"
      [] step2 = "CONVERT_SHADER" -> "m_YUVTextureUpscaled"
      [] step2 = "UPSCALE_SHADER" -> "m_RGBTexture"
      [] step2 = "SHARPEN_SHADER" -> "m_RGBTextureUpscaled"
      [] OTHER -> "none"

\* the queue a step's commands are submitted to
StepQueue(step) ==
    CASE step \in {"ALL_VIDEOPROCESSOR", "CONVERT_VIDEOPROCESSOR", "UPSCALE_VIDEOPROCESSOR"}
            -> "videoProcess"
      [] step \in {"CONVERT_SHADER", "UPSCALE_SHADER", "SHARPEN_SHADER", "UPSCALE_VSR"}
            -> "graphics"
      [] step \in VendorSteps -> "amf"
      [] OTHER -> "none"

\* ------------------------------------- two initialisations in one process
\* inputs of a renderer that ran earlier in the process and left any of the
\* four values in the singleton
SeedInputs ==
    [vendor : {"AMD", "NVIDIA"}, adapter : {a \in Adapters : ~IsIntegratedGPU(a)},
     onBattery : {FALSE}, superResolutionMode : {"SRM_01"},
     m_IsDecoderHDR : {FALSE}, m_IsDisplayHDRenabled : {TRUE}, m_yuv444 : {FALSE},
     edgeEnhancement : {FALSE}, shader62support : {TRUE}, rtx : {TRUE},
     probeVSR : BOOLEAN, probeHDR : BOOLEAN,
     m_VideoProcessorConvertEnabled : {TRUE}, m_VideoProcessorUpscalerEnabled : {TRUE}]

pacerVars ==
    <<cfg, m_FrameQueueLock, m_PacingQueue, m_RenderQueue, m_PacingQueueHistory,
      m_RenderQueueHistory, m_DeferredFreeFrame, m_Stopping, m_EnqueueOverflowStreak,
      m_EnqueueHealthyStreak, m_OverloadRelaxationActive,
      m_OverloadRelaxationFramesRemaining, m_DecoderBacklogStreak, pacerDroppedFrames,
      decPc, decFrame, vsPc, vsFrame, vsTarget, rcPc, rcFrame, rcTarget, dtPc, crashed,
      nextFrame, freed, maxRendered, misordered, usedAfterFree,
      hvMoved, relaxAge, ticks, cleanups, lastWakeUp>>

\* the pacer of a renderer that is only being initialised
PacerConfig == Config(FPM_BALANCED, TRUE, TRUE, 60, FALSE, FALSE, FALSE, 1)

InitResolve ==
    /\ PacerInit(PacerConfig)
    /\ m_VideoEnhancement = VideoEnhancementFresh
    /\ d3d12va = NoRenderer

\* a renderer initialised and destroyed before the one under observation, or
\* between its two initialisations
EarlierRenderer(in) ==
    /\ d3d12va.pc \in {"absent", "initialized"}
    /\ m_VideoEnhancement' = SingletonAfterInitialize(in, m_VideoEnhancement)
    /\ m_VideoEnhancement' # m_VideoEnhancement
    /\ UNCHANGED <<d3d12va, pacerVars>>

\* D3D12VARenderer::initialize()
Initialize(in) ==
    /\ d3d12va.pc = "absent"
    /\ d3d12va' = [pc |-> "initialized", in |-> in,
                   first |-> ResolvePipeline(in, m_VideoEnhancement)]
    /\ m_VideoEnhancement' = SingletonAfterInitialize(in, m_VideoEnhancement)
    /\ UNCHANGED pacerVars

\* initialize() of a second renderer on the same adapter, preferences, stream
\* and driver
InitializeAgain ==
    /\ d3d12va.pc = "initialized"
    /\ d3d12va' = [pc |-> "initializedAgain", in |-> d3d12va.in,
                   first |-> d3d12va.first,
                   second |-> ResolvePipeline(d3d12va.in, m_VideoEnhancement)]
    /\ m_VideoEnhancement' = SingletonAfterInitialize(d3d12va.in, m_VideoEnhancement)
    /\ UNCHANGED pacerVars

EarlierRendererStep ==
    d3d12va.pc \in {"absent", "initialized"} /\ \E in \in SeedInputs : EarlierRenderer(in)

InitializeStep == d3d12va.pc = "absent" /\ \E in \in ResolveInputs : Initialize(in)

NextResolve == EarlierRendererStep \/ InitializeStep \/ InitializeAgain

SpecResolve == InitResolve /\ [][NextResolve]_vars

\* ------------------------------- D3D12VARenderer::renderFrame and the fences
\* frames renderFrame() is called for
MaxRenderedFrames == 2

\* overlay updates notifyOverlayUpdated() is called for
MaxOverlayUpdates == 1

\* the renderer's own fences: m_FenceVideoProcess, m_FenceGraphics,
\* m_FenceOverlay and the fence shared with the D3D11 decoder
\* (m_D3D11Fence / m_D3D12Fence), each with its counter
Fences == {"videoProcess", "graphics", "overlay", "d3d11"}

\* what VideoEnhancement::getDeviceType() can hold when renderFrame() runs
DeviceTypes == {"AV_HWDEVICE_TYPE_D3D11VA", "AV_HWDEVICE_TYPE_D3D12VA", "AV_HWDEVICE_TYPE_NONE"}

\* the argument waitForVideoProcess() and waitForGraphics() get when called
\* without one: cross-queue waits that do not block the CPU
WaitCPUDefault == FALSE

\* the pipelines initialize() leaves on adapters of each vendor with shader
\* model 6.2, a video processor and working vendor libraries
FramePipelines ==
    {ResolvePipeline(in, VideoEnhancementFresh) :
        in \in {i \in ResolveInputs :
                  /\ i.shader62support /\ ~i.edgeEnhancement /\ ~i.onBattery
                  /\ i.m_VideoProcessorConvertEnabled /\ i.m_VideoProcessorUpscalerEnabled
                  /\ ~i.m_IsDecoderHDR /\ ~i.m_IsDisplayHDRenabled /\ ~i.probeHDR
                  /\ i.rtx = (i.vendor = "NVIDIA")
                  /\ i.probeVSR = (i.vendor \in {"AMD", "NVIDIA"})}}

\* waitForVideoProcess / waitForGraphics / waitForOverlay on the queue's own
\* fence: the counter moves first, a failed Signal returns, then either the
\* other queues wait on the GPU or the CPU blocks until the value is reached
WaitFor(r, fence, waitCPU, signalOk) ==
    LET value == r.fenceValue[fence] + 1
        r1 == [r EXCEPT !.fenceValue[fence] = value]
        others == ({"videoProcess", "graphics"} \ {fence})
                      \cup (IF r.m_AmfCommandQueue THEN {"amf"} ELSE {})
        waiters == IF waitCPU THEN {"cpu"}
                   ELSE IF fence = "overlay" THEN others
                   ELSE IF r.m_Vsync THEN {} ELSE others
    IN IF ~signalOk THEN r1
       ELSE [r1 EXCEPT !.signalled = @ \cup {<<fence, value>>},
                       !.waits = @ \cup {<<fence, value, w>> : w \in waiters},
                       !.inFlight = IF waitCPU THEN @ \ {fence} ELSE @]

\* ExecuteCommandLists on the queue of an engine
Submit(r, engine) == [r EXCEPT !.inFlight = @ \cup {engine}]

\* m_VideoProcessCommandAllocator->Reset() / m_GraphicsCommandAllocator->Reset()
ResetAllocator(r, engine) ==
    [r EXCEPT !.resets = @ \cup {<<engine, engine \in r.inFlight>>}]

\* the renderer after initialize(): "Prepare for the first frame" has
\* signalled and waited for value 1 of the three queue fences
RendererReady(p, vsync, deviceType) ==
    [pc |-> "ready",
     m_RenderStep1 |-> p.m_RenderStep1,
     m_RenderStep2 |-> p.m_RenderStep2,
     m_SkipRenderStep2 |-> p.m_SkipRenderStep2,
     m_VendorHDRenabled |-> p.m_VendorHDRenabled,
     m_AmfCommandQueue |-> (p.m_RenderStep1 \in VendorSteps),
     m_Vsync |-> vsync,
     deviceType |-> deviceType,
     fenceValue |-> [f \in Fences |-> IF f = "d3d11" THEN 0 ELSE 1],
     \* Signals that succeeded and waits issued, as <<fence, value>> and
     \* <<fence, value, waiter>>, since the last renderFrame() call began
     signalled |-> {<<f, 1>> : f \in Fences \ {"d3d11"}},
     waits |-> {<<f, 1, "cpu">> : f \in Fences \ {"d3d11"}},
     frames |-> 0,
     m_SkipFrame |-> FALSE,
     m_OutputTexturePrevious |-> FALSE,   \* TRUE once it points to a texture
     \* commands that write the texture m_OutputTexture points to were executed
     outputWritten |-> FALSE,
     m_OverlayLock |-> "free",            \* or the thread that holds it
     m_OverlaySkip |-> FALSE,
     overlayPc |-> "idle",                \* the thread in notifyOverlayUpdated
     overlayUpdates |-> 0,
     \* the renderFrame() call in progress, or the last one
     vpTextures |-> {},       \* written by the video-process queue this frame
     vpTicket |-> 0,          \* fence value signalled after that submission
     graphicsInputs |-> {},   \* read by the commands in m_GraphicsCommandList
     resetVideoProcessCommand |-> FALSE,
     resetGraphicsCommand |-> FALSE,
     \* engines with a command list submitted that no completed CPU wait covers
     inFlight |-> {},
     \* allocator resets, as <<engine, its work may still be executing>>
     resets |-> {},
     failures |-> {},         \* the calls that failed
     selectedPrevious |-> FALSE,  \* m_OutputTexture = m_OutputTexturePrevious ran
     drew |-> FALSE,          \* the Draw block ran
     presentCalls |-> 0,      \* calls of m_SwapChain->Present
     resetEvents |-> <<>>]    \* SDL_RENDER_TARGETS_RESET events pushed, by origin

InitFrame ==
    /\ PacerInit(PacerConfig)
    /\ m_VideoEnhancement = VideoEnhancementFresh
    /\ \E p \in FramePipelines, vsync \in BOOLEAN, deviceType \in DeviceTypes :
          d3d12va = RendererReady(p, vsync, deviceType)

\* a fallback that always goes to Draw
RepeatPreviousAlways(r, failure) ==
    [r EXCEPT !.failures = @ \cup {failure}, !.selectedPrevious = r.m_OutputTexturePrevious,
              !.pc = "Draw"]

\* the fallback of every failure before Draw: repeat the previous output
\* texture if there is one, otherwise present a black screen
RepeatPrevious(r, failure) ==
    IF r.m_OutputTexturePrevious
    THEN [r EXCEPT !.failures = @ \cup {failure}, !.selectedPrevious = TRUE, !.pc = "Draw"]
    ELSE [r EXCEPT !.failures = @ \cup {failure}, !.pc = "Present"]

\* renderFrame(): entry and source acquisition.  The overlay spinlock is taken
\* for the whole call.  The D3D11 path copies the frame, moves
\* m_D3D11FenceValue, signals without looking at the result and, with V-sync,
\* makes the queues wait; the D3D12 path waits on the decoder's fence; any
\* other device type repeats the previous output
AcquireSource(signalOk) ==
    /\ d3d12va.pc = "ready"
    /\ d3d12va.frames < MaxRenderedFrames
    /\ d3d12va.m_OverlayLock = "free"
    /\ LET r == [d3d12va EXCEPT !.m_OverlayLock = "render",
                                !.signalled = {}, !.waits = {},
                                !.vpTextures = {}, !.vpTicket = 0,
                                !.graphicsInputs = {},
                                !.resetVideoProcessCommand = FALSE,
                                !.resetGraphicsCommand = FALSE,
                                !.inFlight = {}, !.resets = {},
                                !.failures = {}, !.selectedPrevious = FALSE,
                                !.drew = FALSE, !.presentCalls = 0,
                                !.resetEvents = <<>>,
                                !.pc = "RenderStep1"]
           value == r.fenceValue["d3d11"] + 1
           queues == {"videoProcess", "graphics"}
                        \cup (IF r.m_AmfCommandQueue THEN {"amf"} ELSE {})
       IN d3d12va' =
            IF r.m_SkipFrame
            THEN RepeatPrevious(r, "m_SkipFrame")
            ELSE LET s == [r EXCEPT !.m_SkipFrame = TRUE]
                 IN CASE s.deviceType = "AV_HWDEVICE_TYPE_D3D11VA" ->
                          [s EXCEPT
                             !.fenceValue["d3d11"] = value,
                             !.signalled = IF signalOk THEN @ \cup {<<"d3d11", value>>}
                                                       ELSE @,
                             !.waits = IF s.m_Vsync
                                       THEN @ \cup {<<"d3d11", value, q>> : q \in queues}
                                       ELSE @]
                      [] s.deviceType = "AV_HWDEVICE_TYPE_D3D12VA" -> s
                      [] OTHER -> RepeatPrevious(s, "deviceType")
    /\ UNCHANGED <<m_VideoEnhancement, pacerVars>>

\* renderFrame(): the RenderStep1 handler
RenderStep1(signalOk, closeOk) ==
    /\ d3d12va.pc = "RenderStep1"
    /\ LET r == d3d12va
           out == Step1Output(r.m_RenderStep1, r.m_SkipRenderStep2)
           next == IF Step1GoesToDraw(r.m_RenderStep1, r.m_SkipRenderStep2)
                   THEN "Draw" ELSE "RenderStep2"
       IN d3d12va' =
            CASE StepQueue(r.m_RenderStep1) = "videoProcess" ->
                    IF ~closeOk
                    THEN RepeatPrevious([r EXCEPT !.resetVideoProcessCommand = TRUE],
                                        "RenderStep1 Close")
                    ELSE \* ExecuteCommandLists on the video-process queue, then
                         \* waitForVideoProcess()
                         LET w == WaitFor(Submit(r, "videoProcess"), "videoProcess",
                                          WaitCPUDefault, signalOk)
                         IN [w EXCEPT !.pc = next,
                                      !.resetVideoProcessCommand = TRUE,
                                      !.outputWritten = @ \/ out = "m_OutputTexture",
                                      !.vpTextures = {out},
                                      !.vpTicket = IF signalOk
                                                   THEN w.fenceValue["videoProcess"]
                                                   ELSE 0]
              [] StepQueue(r.m_RenderStep1) = "graphics" ->
                    IF r.m_RenderStep2 = "UPSCALE_SHADER"
                    THEN \* left in the command list for Draw to submit
                         [r EXCEPT !.pc = next, !.resetGraphicsCommand = TRUE]
                    ELSE IF ~closeOk
                    THEN RepeatPrevious([r EXCEPT !.resetGraphicsCommand = TRUE],
                                        "RenderStep1 Close")
                    ELSE \* executed at once, then waitForGraphics() and the
                         \* reset of the allocator
                         LET w == WaitFor(Submit(r, "graphics"), "graphics",
                                          WaitCPUDefault, signalOk)
                         IN [ResetAllocator(w, "graphics") EXCEPT !.pc = next]
              [] OTHER ->
                    \* AMF: m_AmfCompute->FinishQueue() blocks the CPU
                    [r EXCEPT !.pc = next,
                              !.outputWritten = @ \/ out = "m_OutputTexture"]
    /\ UNCHANGED <<m_VideoEnhancement, pacerVars>>

\* renderFrame(): the RenderStep2 handler, if there is one for the value.
\* The shader and VSR handlers record into m_GraphicsCommandList; the VSR and
\* TrueHDR evaluations can fail.
RenderStep2(evaluateOk) ==
    /\ d3d12va.pc = "RenderStep2"
    /\ LET r == d3d12va
       IN d3d12va' =
            CASE r.m_RenderStep2 = "UPSCALE_VSR" ->
                    IF ~evaluateOk
                    THEN RepeatPrevious([r EXCEPT !.resetGraphicsCommand = TRUE],
                                        "evaluate")
                    ELSE [r EXCEPT !.pc = "Draw", !.resetGraphicsCommand = TRUE,
                                   !.graphicsInputs = {Step2Input(r.m_RenderStep2)}]
              [] r.m_RenderStep2 # "UPSCALE_VSR"
                   /\ StepQueue(r.m_RenderStep2) = "graphics" ->
                    [r EXCEPT !.pc = "Draw", !.resetGraphicsCommand = TRUE,
                              !.graphicsInputs = {Step2Input(r.m_RenderStep2)}]
              [] OTHER -> [r EXCEPT !.pc = "Draw"]
    /\ UNCHANGED <<m_VideoEnhancement, pacerVars>>

\* renderFrame(): Draw records the copy of m_OutputTexture into the back
\* buffer and the overlays, and submits m_GraphicsCommandList to the graphics
\* queue unless its Close fails
Draw(closeOk) ==
    /\ d3d12va.pc = "Draw"
    /\ d3d12va' =
         IF closeOk
         THEN [Submit(d3d12va, "graphics")
                  EXCEPT !.pc = "Present", !.resetGraphicsCommand = TRUE,
                         !.drew = TRUE,
                         \* the commands a RenderStep2 handler recorded run now
                         !.outputWritten = @ \/ d3d12va.graphicsInputs # {},
                         !.graphicsInputs = @ \cup {"m_OutputTexture"}]
         ELSE [d3d12va EXCEPT !.pc = "Present", !.resetGraphicsCommand = TRUE,
                              !.drew = TRUE,
                              !.failures = @ \cup {"Draw Close"}]
    /\ UNCHANGED <<m_VideoEnhancement, pacerVars>>

\* a failed Present that returns with the lock held and the flag set
PresentFailedReturnsLocked(r) ==
    [r EXCEPT !.failures = @ \cup {"Present"},
              !.resetEvents = Append(@, "Present")]

\* a failed Present that pushes no event
PresentFailedSilently(r) ==
    [r EXCEPT !.failures = @ \cup {"Present"},
              !.m_OverlayLock = "free", !.m_SkipFrame = FALSE]

\* renderFrame(): Present failed: push the reset event, unlock and return
PresentFailed(r) ==
    [r EXCEPT !.failures = @ \cup {"Present"},
              !.resetEvents = Append(@, "Present"),
              !.m_OverlayLock = "free", !.m_SkipFrame = FALSE]

\* renderFrame(): Present; then the output texture is remembered, the CPU
\* waits for each engine the frame used before its allocator is reset, the
\* lock is released and reloadOnResize() asks for a reset if the window
\* changed size
Present(presentOk, videoProcessOk, graphicsOk, resized) ==
    /\ d3d12va.pc = "Present"
    /\ LET r == [d3d12va EXCEPT !.presentCalls = @ + 1, !.pc = "ready",
                                !.frames = @ + 1]
           a == IF r.resetVideoProcessCommand
                THEN ResetAllocator(WaitFor(r, "videoProcess", TRUE, videoProcessOk),
                                    "videoProcess")
                ELSE r
           b == IF r.resetGraphicsCommand
                THEN ResetAllocator(WaitFor(a, "graphics", TRUE, graphicsOk), "graphics")
                ELSE a
       IN d3d12va' =
            IF ~presentOk
            THEN PresentFailed(r)
            ELSE [b EXCEPT !.m_OutputTexturePrevious = TRUE,
                           !.m_OverlayLock = "free", !.m_SkipFrame = FALSE,
                           !.resetEvents = IF resized THEN Append(@, "reloadOnResize")
                                                      ELSE @]
    /\ UNCHANGED <<m_VideoEnhancement, pacerVars>>

\* notifyOverlayUpdated(), on any thread: return if an update or the overlay
\* rendering is in progress, otherwise claim m_OverlaySkip and go for the lock
NotifyOverlayBegin ==
    /\ d3d12va.overlayPc = "idle"
    /\ d3d12va.pc # "absent"
    /\ d3d12va.overlayUpdates < MaxOverlayUpdates
    /\ ~d3d12va.m_OverlaySkip
    /\ d3d12va' = [d3d12va EXCEPT !.m_OverlaySkip = TRUE, !.overlayPc = "SDL_AtomicLock",
                                  !.overlayUpdates = @ + 1]
    /\ UNCHANGED <<m_VideoEnhancement, pacerVars>>

\* notifyOverlayUpdated(): SDL_AtomicLock(&m_OverlayLock) succeeds
NotifyOverlayLock ==
    /\ d3d12va.overlayPc = "SDL_AtomicLock"
    /\ d3d12va.m_OverlayLock = "free"
    /\ d3d12va' = [d3d12va EXCEPT !.m_OverlayLock = "overlay", !.overlayPc = "upload"]
    /\ UNCHANGED <<m_VideoEnhancement, pacerVars>>

\* notifyOverlayUpdated(): with the lock held, create the new texture, submit
\* the upload to the overlay queue and block in waitForOverlay(true)
NotifyOverlayUpload(signalOk) ==
    /\ d3d12va.overlayPc = "upload"
    /\ d3d12va' = [WaitFor(d3d12va, "overlay", TRUE, signalOk) EXCEPT !.overlayPc = "swap"]
    /\ UNCHANGED <<m_VideoEnhancement, pacerVars>>

\* notifyOverlayUpdated(): move the new texture and vertex buffer in, unlock
NotifyOverlaySwap ==
    /\ d3d12va.overlayPc = "swap"
    /\ d3d12va' = [d3d12va EXCEPT !.m_OverlayLock = "free", !.m_OverlaySkip = FALSE,
                                  !.overlayPc = "idle"]
    /\ UNCHANGED <<m_VideoEnhancement, pacerVars>>

AcquireSourceStep == \E ok \in BOOLEAN : AcquireSource(ok)

RenderStep1Step == \E ok \in BOOLEAN, closeOk \in BOOLEAN : RenderStep1(ok, closeOk)

RenderStep2Step == \E ok \in BOOLEAN : RenderStep2(ok)

DrawStep == \E ok \in BOOLEAN : Draw(ok)

PresentStep ==
    \E ok \in BOOLEAN, okV \in BOOLEAN, okG \in BOOLEAN, resized \in BOOLEAN :
        Present(ok, okV, okG, resized)

NotifyOverlayUploadStep == \E ok \in BOOLEAN : NotifyOverlayUpload(ok)

NextFrame ==
    \/ AcquireSourceStep
    \/ RenderStep1Step
    \/ RenderStep2Step
    \/ DrawStep
    \/ PresentStep
    \/ NotifyOverlayBegin
    \/ NotifyOverlayLock
    \/ NotifyOverlayUploadStep
    \/ NotifyOverlaySwap

SpecFrame == InitFrame /\ [][NextFrame]_vars

\* ----------------------------------------- pacing under fair scheduling
\* The Pacer while it is alive (~Pacer does not run), in the configurations of
\* LiveConfigs: V-sync ticks keep arriving, the render context keeps running
\* (waitToRender() and renderFrame() return, the main thread serves
\* SDL_CODE_FRAME_READY), and a decoder call that has begun is completed
NextPaced == DecoderStep \/ VsyncStep \/ RenderStep

PacedFairness ==
    /\ WF_vars(VsyncStep)
    /\ WF_vars(RenderStep)
    /\ WF_vars(SubmitFrameEnqueue \/ SubmitFrameWake \/ SubmitFrameBypass
               \/ SubmitFrameBypassWake \/ NotifyDecoderBacklogActivate)

SpecPaced == InitLive /\ [][NextPaced]_vars /\ PacedFairness

\* -------------------------------------- long healthy runs of the streaks
\* A burst of BurstFramesStreak frames, which can overflow a queue, followed
\* by a stream slow enough that no enqueue overflows, long enough for the
\* healthy streak to pass OVERLOAD_HEALTHY_RESET_FRAMES (each frame is enqueued
\* twice, on the Pacing Queue and on the Render Queue); in the other
\* configurations the frames arrive at any time
StreakConfigs ==
    LiveConfigs \cup
    {[Config(FPM_BALANCED, TRUE, TRUE, 2, TRUE, FALSE, FALSE, MaxFramesStreak)
        EXCEPT !.pacedAfter = BurstFramesStreak]}

InitStreak == \E c \in StreakConfigs : InitWith(c)

SpecStreak == InitStreak /\ [][NextPaced]_vars

\* ------------------------------------------- the queue-depth histories
\* Short runs at the refresh rates and frame rates that decide the length of
\* the history windows: 1 (a window of m_DisplayFps / 2 = 0 samples), 3 (one
\* sample, in LiveConfigs) and 4 (two samples); the V-sync thread services at
\* most MaxTicksWindow ticks where the rates are not 3
WindowConfig(fps, stale) ==
    [Config(FPM_BALANCED, TRUE, TRUE, fps, FALSE, stale, FALSE, MaxFramesWindow)
        EXCEPT !.displayFps = fps, !.tickLimited = TRUE, !.maxTicks = MaxTicksWindow]

WindowConfigs ==
    LiveConfigs \cup {WindowConfig(1, stale) : stale \in BOOLEAN}
                \cup {WindowConfig(4, FALSE)}

InitWindow == \E c \in WindowConfigs : InitWith(c)

SpecWindow == InitWindow /\ [][NextPaced]_vars

\* ------------------------------------------------------------------ claims
Submitted == 1..(nextFrame - 1)

\* capacity the documentation gives a queue: 3 / 2 / 1 by mode, one more (at
\* most 3) while relaxation is active
DocumentedCapacity(mode, active) ==
    LET base == CASE mode = FPM_BALANCED -> 3
                  [] mode = FPM_LOW_LATENCY -> 2
                  [] mode = FPM_ULTRA_LOW -> 1
    IN IF active THEN (IF base + 1 < 3 THEN base + 1 ELSE 3) ELSE base

\* C1: immediately after submitFrame enqueues on the Pacing Queue, the queue
\* holds at most the capacity in force at that moment (3/2/1 by mode, or
\* min(3, maxQueuedFrames+1) when relaxation is active)
C1_EnqueueWithinCapacity ==
    [][SubmitFrameEnqueue =>
         Len(m_PacingQueue') <= DocumentedCapacity(cfg.mode, m_OverloadRelaxationActive')]_vars

\* C1 witness: ultra-low mode, relaxation active, an enqueue that had to drop
\* has just left the queue at the relaxed capacity 2
C1_Witness ==
    /\ cfg.mode = FPM_ULTRA_LOW /\ cfg.vsync
    /\ decPc = "sf_wake"
    /\ m_OverloadRelaxationActive
    /\ Len(m_PacingQueue) = 2
    /\ pacerDroppedFrames > 0

\* C2: frames reach the renderer in submission order: no frame is rendered
\* after a frame submitted later than it
C2_RenderedInSubmissionOrder == ~misordered

\* C3: the Pacing Queue always holds the most recently enqueued frames, in
\* arrival order and without gaps (a contiguous suffix of what was submitted)
C3_PacingQueueIsSuffix ==
    cfg.vsync =>
        LET last == IF decPc = "sf_enqueue" THEN nextFrame - 2 ELSE nextFrame - 1
            n == Len(m_PacingQueue)
        IN \A i \in 1..n : m_PacingQueue[i] = last - n + i

\* C3 witness: after drops, the queue holds two or more frames, none of them
\* the first frame submitted
C3_Witness ==
    /\ cfg.vsync
    /\ pacerDroppedFrames > 0
    /\ Len(m_PacingQueue) >= 2
    /\ m_PacingQueue[1] > 1

\* C4: once ~Pacer has set the stopping flag, both worker threads exit and
\* the destructor gets past both joins (the process dying ends them as well)
C4_ShutdownTerminates ==
    m_Stopping ~> (crashed \/ dtPc \in {"d_drain", "d_done"})

\* C5: when ~Pacer has finished, every frame passed to submitFrame has been
\* freed exactly once
C5_AllFramesFreedOnce ==
    dtPc = "d_done" => \A f \in Submitted : freed[f] = 1

Occurrences(queue, f) == Cardinality({i \in 1..Len(queue) : queue[i] = f})

Owners(f) ==
    Occurrences(m_PacingQueue, f) + Occurrences(m_RenderQueue, f)
    + (IF decFrame = f THEN 1 ELSE 0) + (IF vsFrame = f THEN 1 ELSE 0)
    + (IF rcFrame = f THEN 1 ELSE 0) + (IF m_DeferredFreeFrame = f THEN 1 ELSE 0)
    + (IF freed[f] > 0 THEN 1 ELSE 0)

\* C6: every submitted frame has exactly one owner (a queue, a thread, the
\* deferred-free slot, or freed), is freed at most once, and is never rendered
\* or enqueued after it was freed
C6_ExactlyOneOwner ==
    /\ \A f \in Submitted : Owners(f) = 1 /\ freed[f] <= 1
    /\ ~usedAfterFree

\* C7: the frames held in the Pacing Queue and the Render Queue together never
\* exceed the decoder's buffer pool, PACER_MAX_OUTSTANDING_FRAMES
C7_QueuesWithinBufferPool ==
    Len(m_PacingQueue) + Len(m_RenderQueue) <= PACER_MAX_OUTSTANDING_FRAMES

\* C8: one handleVsync call moves at most one frame to the Render Queue, and
\* a call that ends on the wait timing out, or on the stopping flag after the
\* wake-up, moves none
C8_AtMostOneFramePerVsync ==
    /\ [](hvMoved <= 1)
    /\ [][((vsPc = "hv_wait" /\ vsPc' = "loop")
           \/ (vsPc = "hv_woken" /\ m_Stopping /\ vsPc' = "loop"))
          => UNCHANGED <<m_PacingQueue, m_RenderQueue>>]_vars

\* C8 witness: handleVsync has moved one frame and is about to return while
\* more frames wait in the Pacing Queue
C8_Witness ==
    /\ vsPc = "hv_wake"
    /\ hvMoved = 1
    /\ Len(m_PacingQueue) >= 1

\* C9: in low-latency mode relaxation is active once overflowStreak has
\* reached 24, and it ends exactly 180 submitFrame calls after it began, with
\* overflowStreak and healthyStreak both zero at that moment
C9_LowLatencyRelaxationWindow ==
    /\ []((cfg.mode = FPM_LOW_LATENCY /\ m_EnqueueOverflowStreak >= 24)
            => m_OverloadRelaxationActive)
    /\ [][(cfg.mode = FPM_LOW_LATENCY /\ cfg.vsync
           /\ m_OverloadRelaxationActive /\ ~m_OverloadRelaxationActive')
          => (relaxAge' = 180 /\ m_EnqueueOverflowStreak' = 0
              /\ m_EnqueueHealthyStreak' = 0)]_vars

\* C9 witness: a burst without any V-sync tick or backlog report; submitFrame
\* has just ended the relaxation that the 24th overflow began
C9_Witness ==
    /\ cfg.mode = FPM_LOW_LATENCY /\ cfg.vsync /\ ~cfg.backlogReports
    /\ ticks = 0
    /\ decPc = "sf_enqueue"
    /\ ~m_OverloadRelaxationActive
    /\ relaxAge = 180
    /\ pacerDroppedFrames >= 30
    /\ nextFrame - 1 = 2 + 24 + 180

\* C10: in ultra-low-latency mode an overflowing enqueue activates relaxation
\* exactly when it is the 8th of the streak, setting the duration counter to
\* 300; an enqueue made while relaxation is active lets the Pacing Queue grow
\* to 2 and no further
C10_UltraLowRelaxation ==
    /\ [][(cfg.mode = FPM_ULTRA_LOW
           /\ ~m_OverloadRelaxationActive /\ m_OverloadRelaxationActive'
           /\ m_DecoderBacklogStreak' = m_DecoderBacklogStreak)
          => (m_EnqueueOverflowStreak' = 8
              /\ m_OverloadRelaxationFramesRemaining' = 300)]_vars
    /\ []((cfg.mode = FPM_ULTRA_LOW /\ ~m_OverloadRelaxationActive)
            => m_EnqueueOverflowStreak < 8)
    /\ [][(cfg.mode = FPM_ULTRA_LOW /\ SubmitFrameEnqueue /\ m_OverloadRelaxationActive)
          => Len(m_PacingQueue') = (IF Len(m_PacingQueue) < 2
                                    THEN Len(m_PacingQueue) + 1 ELSE 2)]_vars

\* C10 witness: the 8th overflow of a burst has just activated relaxation
C10_Witness ==
    /\ cfg.mode = FPM_ULTRA_LOW /\ cfg.vsync /\ ~cfg.backlogReports
    /\ decPc = "sf_wake"
    /\ m_OverloadRelaxationActive
    /\ m_EnqueueOverflowStreak = 8
    /\ m_OverloadRelaxationFramesRemaining = 300
    /\ pacerDroppedFrames = 8

\* The state after a burst of 50 submitFrame calls in ultra-low-latency mode
\* with a V-sync source whose thread has serviced no tick, and no backlog report
AfterBurstOfFifty ==
    /\ cfg.mode = FPM_ULTRA_LOW /\ cfg.vsync /\ ~cfg.backlogReports
    /\ ticks = 0
    /\ decPc = "idle"
    /\ nextFrame - 1 = 50

\* C11 as stated: after the burst the Pacing Queue holds 1 frame, 49 drops
\* have been recorded and relaxation is active
C11_BurstLeavesOneFrame ==
    AfterBurstOfFifty =>
        /\ Len(m_PacingQueue) = 1
        /\ pacerDroppedFrames = 49
        /\ m_OverloadRelaxationActive

\* C11, amended: relaxation activates on the 9th submission (the 8th overflow),
\* the 10th submission is accepted without a drop under the relaxed capacity 2,
\* so after the burst the Pacing Queue holds the 2 newest frames, 48 drops
\* have been recorded and relaxation is still active
C11_BurstLeavesTwoFrames ==
    AfterBurstOfFifty =>
        /\ m_PacingQueue = <<49, 50>>
        /\ pacerDroppedFrames = 48
        /\ m_OverloadRelaxationActive
        /\ relaxAge = 50 - 9
        /\ m_OverloadRelaxationFramesRemaining = ULTRA_LOW_RELAX_DURATION_FRAMES - (50 - 9)

\* C11 witness: the burst of 50 has completed
C11_Witness ==
    /\ AfterBurstOfFifty
    /\ pacerDroppedFrames = 48

\* C12: in balanced mode relaxation is never active, whatever the overflow
\* streak, and the capacity in force at every enqueue on the Pacing Queue
\* is 3: a queue of fewer than 3 frames grows by one, a queue of 3 stays at 3
C12_BalancedNeverRelaxes ==
    /\ [](cfg.mode = FPM_BALANCED => ~m_OverloadRelaxationActive)
    /\ [][(cfg.mode = FPM_BALANCED /\ SubmitFrameEnqueue)
          => Len(m_PacingQueue') = SDL_min(Len(m_PacingQueue) + 1, 3)]_vars

\* C12 witness: balanced mode, the overflow streak has passed the generic
\* threshold with the Pacing Queue full, and relaxation is still inactive
C12_Witness ==
    /\ cfg.mode = FPM_BALANCED /\ cfg.vsync
    /\ m_EnqueueOverflowStreak >= OVERLOAD_RELAX_OVERFLOW_THRESHOLD
    /\ Len(m_PacingQueue) = 3
    /\ ~m_OverloadRelaxationActive

\* C13: every submitFrame call made while relaxation is active decrements
\* the duration counter, and relaxation is inactive once the counter is zero
\* (so an active relaxation ends within framesRemaining further submissions),
\* with or without a V-sync source
C13_CountdownOnEverySubmission ==
    /\ [][(SubmitFrameBegin /\ m_OverloadRelaxationActive)
          => /\ m_OverloadRelaxationFramesRemaining' =
                    m_OverloadRelaxationFramesRemaining - 1
             /\ (m_OverloadRelaxationFramesRemaining' = 0
                    => ~m_OverloadRelaxationActive')]_vars
    /\ [](m_OverloadRelaxationActive => m_OverloadRelaxationFramesRemaining > 0)

\* C14: the relaxation state (active flag, framesRemaining, overflowStreak,
\* healthyStreak) changes only in steps of submitFrame taken with the
\* frame-queue mutex held by the submitting thread
C14_RelaxationStateOwnedBySubmitter ==
    [][relaxVars' # relaxVars
       => /\ (SubmitFrameBegin \/ SubmitFrameEnqueue \/ SubmitFrameBypass)
          /\ (m_FrameQueueLock = "dec" \/ m_FrameQueueLock' = "dec")]_vars

\* C15: the frame handed to the renderer by one render call sits in the
\* deferred-free slot, unfreed, until the next render call has returned; that
\* call frees it and puts its own frame, unfreed, in the slot
C15_DeferredFree ==
    /\ [](m_DeferredFreeFrame # 0 => freed[m_DeferredFreeFrame] = 0)
    /\ [][RenderFrameCall
          => /\ m_DeferredFreeFrame' = rcFrame
             /\ freed'[rcFrame] = freed[rcFrame]
             /\ (m_DeferredFreeFrame # 0
                   => freed'[m_DeferredFreeFrame] = freed[m_DeferredFreeFrame] + 1)]_vars

\* C16: without a V-sync source the Pacing Queue is always empty; submitFrame
\* puts the frame at the tail of the Render Queue, behind what the enqueue
\* drop policy kept of it, and then wakes the render thread if there is one
\* and posts the frame-ready event otherwise
C16_BypassGoesToRenderQueue ==
    /\ [](~cfg.vsync => m_PacingQueue = <<>>)
    /\ [][SubmitFrameBypass
          => LET n == Len(m_RenderQueue')
                 kept == DropFrameForEnqueue(m_RenderQueue).queue
             IN /\ n >= 1
                /\ m_RenderQueue'[n] = decFrame
                /\ SubSeq(m_RenderQueue', 1, n - 1) = kept]_vars
    /\ [][SubmitFrameBypassWake
          => /\ lastWakeUp' = (IF cfg.renderThread THEN "wakeOne"
                                                  ELSE "SDL_CODE_FRAME_READY")
             /\ (cfg.renderThread /\ rcPc = "rt_waiting" => rcPc' = "rt_woken")]_vars

\* C16 witness: no V-sync source; a submitted frame went to a Render Queue
\* that was full and the waiting render thread has been woken
C16_Witness ==
    /\ ~cfg.vsync /\ cfg.renderThread
    /\ decPc = "idle"
    /\ pacerDroppedFrames > 0
    /\ Len(m_RenderQueue) >= 2
    /\ lastWakeUp = "wakeOne"
    /\ m_PacingQueue = <<>>

\* C17: two initialisations with the same vendor, adapter class, battery
\* state, override, stream flags and probe results select the same
\* (RenderStep1, RenderStep2) pair, in enhanceAutoSelection() and after the
\* video-processor fallback, whatever earlier renderers left in the singleton
C17_ResolutionIsDeterministic ==
    d3d12va.pc = "initializedAgain"
        => /\ d3d12va.second.selected = d3d12va.first.selected
           /\ d3d12va.second.m_RenderStep1 = d3d12va.first.m_RenderStep1
           /\ d3d12va.second.m_RenderStep2 = d3d12va.first.m_RenderStep2

\* C17 witness: an unrecognised vendor with the driver override read the
\* singleton's HDR capability, which differed between the two initialisations
C17_Witness ==
    /\ d3d12va.pc = "initializedAgain"
    /\ d3d12va.in.vendor = "other"
    /\ d3d12va.in.superResolutionMode = "SRM_01"
    /\ d3d12va.first.m_VendorHDRenabled # d3d12va.second.m_VendorHDRenabled
    /\ d3d12va.second.selected = d3d12va.first.selected

\* renderFrame() reaches Draw with m_OutputTexture written by the frame's own
\* steps: by a first step that goes straight to Draw, or by a RenderStep2
\* handler (every one of which writes it)
OutputWrittenBeforeDraw(r) ==
    IF Step1GoesToDraw(r.m_RenderStep1, r.m_SkipRenderStep2)
    THEN Step1Output(r.m_RenderStep1, r.m_SkipRenderStep2) = "m_OutputTexture"
    ELSE Step2Input(r.m_RenderStep2) # "none"

\* C18: whatever the vendor, GPU class, override, shader support, probe
\* results, edge enhancement and 4:4:4 flag, initialize() leaves a pair for
\* which renderFrame() has a handler for each step, RenderStep2 reads the
\* texture RenderStep1 wrote, and m_OutputTexture is written before Draw
C18_ResolvedPipelineIsValid ==
    d3d12va.pc = "initialized"
        => LET r == d3d12va.first
               out1 == Step1Output(r.m_RenderStep1, r.m_SkipRenderStep2)
           IN /\ out1 # "none"
              /\ r.m_RenderStep2 # "NONE"
                    => /\ Step2Input(r.m_RenderStep2) # "none"
                       /\ Step2Input(r.m_RenderStep2) = out1
              /\ OutputWrittenBeforeDraw(r)

\* C19: when Draw submits graphics work that reads a texture the video-process
\* queue wrote in RenderStep1 (read by the RenderStep2 shader or by the copy
\* to the back buffer), a wait for the value signalled after RenderStep1's
\* submission has already been issued, by the CPU or by the graphics queue,
\* with V-sync and without
C19_WaitBeforeConsume ==
    [][Draw(TRUE) /\ (d3d12va'.graphicsInputs \cap d3d12va.vpTextures) # {}
          => /\ d3d12va.vpTicket > 0
             /\ \E by \in {"cpu", "graphics"} :
                  <<"videoProcess", d3d12va.vpTicket, by>> \in d3d12va.waits]_vars

\* C20: every fence counter only moves up, and every wait the CPU or a queue
\* has been given is on a value whose Signal was issued and succeeded
C20_WaitsOnlyOnSignalledValues ==
    /\ [](d3d12va.pc # "absent"
            => \A w \in d3d12va.waits : <<w[1], w[2]>> \in d3d12va.signalled)
    /\ [][\A f \in Fences :
            /\ d3d12va'.fenceValue[f] >= d3d12va.fenceValue[f]
            /\ \A w \in d3d12va'.waits \ d3d12va.waits :
                  w[1] = f => w[2] > d3d12va.fenceValue[f]]_vars

\* the failures of a renderFrame() call that happen before its Draw block
FailuresBeforeDraw == {"deviceType", "RenderStep1 Close", "RenderStep2 Close", "evaluate"}

\* renderFrame() has returned: Present was called once, the overlay lock is
\* not held by the render thread and m_SkipFrame is clear
ReturnedAfterOnePresent ==
    d3d12va.pc = "ready" /\ d3d12va.frames > 0
        => /\ d3d12va.presentCalls = 1
           /\ d3d12va.m_OverlayLock # "render"
           /\ ~d3d12va.m_SkipFrame

\* C21 as stated: after a failed Close in RenderStep1, RenderStep2 or Draw, a
\* failed vendor evaluation or an unknown device type, renderFrame() reaches
\* Present having selected the previous output texture and run Draw when there
\* is one, and without having run Draw otherwise; Present is called exactly
\* once and the call returns
C21_EveryFailureRepeatsPrevious ==
    /\ ReturnedAfterOnePresent
    /\ d3d12va.pc = "Present"
         /\ d3d12va.failures \cap (FailuresBeforeDraw \cup {"Draw Close"}) # {}
         => IF d3d12va.m_OutputTexturePrevious
            THEN d3d12va.selectedPrevious /\ d3d12va.drew
            ELSE ~d3d12va.drew

\* C21, amended: a failure before Draw selects the previous output texture and
\* runs Draw when there is one and skips Draw otherwise; a failed Close in Draw
\* itself submits nothing and goes to Present; in every case Present is called
\* exactly once and the call returns
C21_FailureBeforeDrawRepeatsPrevious ==
    /\ ReturnedAfterOnePresent
    /\ d3d12va.pc = "Present" /\ d3d12va.failures \cap FailuresBeforeDraw # {}
         => IF d3d12va.m_OutputTexturePrevious
            THEN d3d12va.selectedPrevious /\ d3d12va.drew
            ELSE ~d3d12va.selectedPrevious /\ ~d3d12va.drew
    /\ d3d12va.pc = "Present" /\ "Draw Close" \in d3d12va.failures
         => d3d12va.drew /\ "m_OutputTexture" \notin d3d12va.graphicsInputs

C21_Witness ==
    /\ d3d12va.pc = "ready"
    /\ d3d12va.frames = 2
    /\ d3d12va.failures = {"RenderStep1 Close"}
    /\ d3d12va.selectedPrevious /\ d3d12va.drew
    /\ d3d12va.presentCalls = 1

\* C22: a failed Present pushes exactly one SDL_RENDER_TARGETS_RESET event and
\* returns leaving m_OutputTexturePrevious as it was; up to Present no path of
\* renderFrame(), failed or not, has pushed an event
C22_ResetEventOnlyOnPresentFailure ==
    /\ [](d3d12va.pc \in {"RenderStep1", "RenderStep2", "Draw", "Present"}
             => d3d12va.resetEvents = <<>>)
    /\ [][PresentStep /\ "Present" \in d3d12va'.failures
             => /\ d3d12va'.resetEvents = <<"Present">>
                /\ d3d12va'.m_OutputTexturePrevious = d3d12va.m_OutputTexturePrevious
                /\ d3d12va'.pc = "ready"]_vars

C22_Witness ==
    /\ d3d12va.pc = "ready"
    /\ d3d12va.failures = {"evaluate", "Present"}
    /\ d3d12va.resetEvents = <<"Present">>
    /\ ~d3d12va.m_OutputTexturePrevious

\* C24: the thread in notifyOverlayUpdated() holds the overlay spinlock only
\* while it swaps the texture and vertex buffer in, never while the upload is
\* being submitted and waited for
C24_OverlayLockOnlyForSwap ==
    d3d12va.pc # "absent" /\ d3d12va.m_OverlayLock = "overlay" => d3d12va.overlayPc = "swap"

\* C23: a thread that is about to update the dropped-frame counter holds the
\* frame-queue mutex: the V-sync thread and the render context in their
\* catch-up loops (the decoder thread updates it inside dropFrameForEnqueue,
\* which runs between lock() and unlock())
C23_DropCounterUpdatedUnderLock ==
    /\ vsPc = "hv_dropfree" => m_FrameQueueLock = "vs"
    /\ rcPc = "rf_dropfree" => m_FrameQueueLock = "rc"

\* C25: cleanupRenderContext() is called at most once, and exactly once by
\* the time ~Pacer has finished; the renderer's renderFrame() is never called
\* after it; and it is called by the render thread when there is one and
\* otherwise by the thread running the destructor
C25_CleanupOnceAfterLastRender ==
    /\ [](cleanups <= 1 /\ (dtPc = "d_done" => cleanups = 1))
    /\ [][cleanups >= 1 => ~RenderFrameCall]_vars
    /\ [][cleanups' # cleanups
            => IF cfg.renderThread THEN RtLoopTest \/ RtLock
                                   ELSE DtorJoinVsync \/ DtorStopRender]_vars

C25_Witness ==
    /\ dtPc = "d_done"
    /\ cleanups = 1
    /\ cfg.renderThread
    /\ maxRendered > 0

\* C26: whenever handleVsync comes back from its wait woken, with m_Stopping
\* clear, and goes on to dequeue, the Pacing Queue is not empty
C26_NoDequeueFromEmptyPacingQueue ==
    [][HvWoken /\ ~m_Stopping => m_PacingQueue # <<>>]_vars

\* frame f is in the Pacing Queue or the Render Queue
Queued(f) == Occurrences(m_PacingQueue, f) + Occurrences(m_RenderQueue, f) > 0

\* C27: every frame that is in the Pacing Queue or the Render Queue eventually
\* leaves both (rendered or dropped), and a render thread that sleeps while
\* the Render Queue holds a frame eventually wakes up, for as long as the
\* process lives
C27_EveryQueuedFrameLeaves ==
    /\ \A f \in 1..MaxFramesLive : Queued(f) ~> (~Queued(f) \/ crashed)
    /\ (rcPc = "rt_waiting" /\ m_RenderQueue # <<>>) ~> (rcPc # "rt_waiting" \/ crashed)

C27_Witness ==
    /\ rcPc = "rt_woken"
    /\ m_RenderQueue # <<>>
    /\ ~crashed

\* C28: no thread holds the frame-queue mutex while it is inside the renderer
\* (waitToRender, renderFrame) or asleep on a condition variable; every holder
\* gives the mutex up again, and every submitFrame call that has begun returns
C28_MutexNeverHeldAcrossRendererOrWait ==
    /\ [](rcPc \in {"rt_loop", "rf_render", "rt_waiting"} => m_FrameQueueLock # "rc")
    /\ [](vsPc = "hv_wait" => m_FrameQueueLock # "vs")
    /\ (m_FrameQueueLock # "none") ~> (m_FrameQueueLock = "none" \/ crashed)
    /\ (decPc # "idle") ~> (decPc = "idle" \/ crashed)

C28_Witness ==
    /\ rcPc = "rt_waiting"
    /\ vsPc = "hv_wait"
    /\ decPc = "sf_enqueue"
    /\ m_FrameQueueLock = "dec"

\* an enqueue that found room: m_EnqueueHealthyStreak++
HealthyEnqueue == m_EnqueueHealthyStreak' = m_EnqueueHealthyStreak + 1

\* an enqueue that overflowed: m_EnqueueOverflowStreak++
OverflowingEnqueue == m_EnqueueOverflowStreak' = m_EnqueueOverflowStreak + 1

\* C29: a non-overflowing enqueue zeroes overflowStreak only once healthyStreak
\* exceeds 120 (unchanged after 120 consecutive non-overflowing enqueues, zero
\* after the 121st), and an overflowing enqueue resets healthyStreak to zero
C29_ResetOnceStreakExceeds120 ==
    /\ [][HealthyEnqueue =>
            m_EnqueueOverflowStreak' =
                IF m_EnqueueHealthyStreak' > OVERLOAD_HEALTHY_RESET_FRAMES
                THEN 0 ELSE m_EnqueueOverflowStreak]_vars
    /\ [][OverflowingEnqueue => m_EnqueueHealthyStreak' = 0]_vars

\* C29 as amended: the overflow streak is zeroed once healthyStreak reaches 120
\* (unchanged after 119 consecutive non-overflowing enqueues, zero after the
\* 120th), and an overflowing enqueue resets healthyStreak to zero
C29_ResetOnceStreakReaches120 ==
    /\ [][HealthyEnqueue =>
            m_EnqueueOverflowStreak' =
                IF m_EnqueueHealthyStreak' >= OVERLOAD_HEALTHY_RESET_FRAMES
                THEN 0 ELSE m_EnqueueOverflowStreak]_vars
    /\ [][OverflowingEnqueue => m_EnqueueHealthyStreak' = 0]_vars

C29_Witness ==
    /\ m_EnqueueHealthyStreak = OVERLOAD_HEALTHY_RESET_FRAMES
    /\ m_EnqueueOverflowStreak = 0
    /\ pacerDroppedFrames > 0

\* a notifyDecoderBacklog call in a non-balanced mode that reports backlogFrames
ReportsBacklog(backlogFrames) ==
    /\ decPc = "idle"
    /\ cfg.backlogReports /\ cfg.mode # FPM_BALANCED
    /\ NotifyDecoderBacklogReport(backlogFrames)
    /\ UNCHANGED <<relaxVars, nextFrame, m_FrameQueueLock>>

\* C30: in a non-balanced mode a report below 10 frames resets the backlog
\* streak to zero and a report of 10 or more adds one to it; with relaxation
\* inactive the call activates relaxation exactly when that makes 8 or more
\* consecutive reports of 10 or more; the activation sets the streak to zero
C30_BacklogActivationAtEightReports ==
    /\ [][\A b \in BacklogInputs : ReportsBacklog(b) =>
            /\ b < 10 => m_DecoderBacklogStreak' = 0 /\ decPc' = "idle"
            /\ b >= 10 => m_DecoderBacklogStreak' = m_DecoderBacklogStreak + 1
            /\ ~m_OverloadRelaxationActive =>
                  (decPc' = "nb_activate" <=> (b >= 10 /\ m_DecoderBacklogStreak' >= 8))
            /\ m_OverloadRelaxationActive => decPc' = "idle"]_vars
    /\ [][decPc = "nb_activate" /\ decPc' # "nb_activate" =>
            /\ m_OverloadRelaxationActive'
            /\ m_OverloadRelaxationFramesRemaining' >= 180
            /\ m_DecoderBacklogStreak' = 0]_vars

C30_Witness ==
    /\ cfg.mode = FPM_LOW_LATENCY
    /\ decPc = "idle"
    /\ m_OverloadRelaxationActive
    /\ m_OverloadRelaxationFramesRemaining = OVERLOAD_RELAX_DURATION_FRAMES
    /\ m_EnqueueOverflowStreak < OVERLOAD_RELAX_OVERFLOW_THRESHOLD
    /\ m_DecoderBacklogStreak = 0

\* relaxation becomes active in this step
RelaxationActivates == ~m_OverloadRelaxationActive /\ m_OverloadRelaxationActive'

\* C31: whenever relaxation becomes active, by enqueue overflow or by decoder
\* backlog, the duration counter is set to the duration of the mode: 300
\* submissions in ultra-low-latency mode, 180 otherwise
C31_ActivationSetsModeDuration ==
    [][RelaxationActivates =>
         m_OverloadRelaxationFramesRemaining' =
             IF cfg.mode = FPM_ULTRA_LOW THEN 300 ELSE 180]_vars

\* no call of submitFrame, notifyDecoderBacklog, handleVsync or
\* Pacer::renderFrame is in progress
NoOperationInProgress ==
    /\ decPc = "idle"
    /\ vsPc \in {"none", "loop", "done"}
    /\ rcPc \notin {"rf_render", "rf_lock", "rf_dropfree"}

\* C32: whenever no Pacer operation is in progress, relaxation is active if and
\* only if framesRemaining > 0, and framesRemaining always lies in 0..300
C32_ActiveIffFramesRemaining ==
    /\ NoOperationInProgress =>
          (m_OverloadRelaxationActive <=> m_OverloadRelaxationFramesRemaining > 0)
    /\ m_OverloadRelaxationFramesRemaining >= 0
    /\ m_OverloadRelaxationFramesRemaining <= 300

C32_Witness ==
    /\ NoOperationInProgress
    /\ ~m_OverloadRelaxationActive
    /\ m_OverloadRelaxationFramesRemaining = 0
    /\ relaxAge >= 180

\* a pass of handleVsync's catch-up loop: its test with the mutex held, taken
\* on entry or after a drop
CatchUpPass ==
    /\ vsPc \in {"hv_lock", "hv_dropfree"}
    /\ vsPc' # vsPc \/ vsFrame' # vsFrame

\* frames dropFrameForEnqueue dropped from the Render Queue in this step
RenderQueueOverflowDrops ==
    IF Len(m_RenderQueue') > Len(m_RenderQueue) \/ vsPc' = "hv_wake"
    THEN Len(m_RenderQueue) + 1 - Len(m_RenderQueue') ELSE 0

\* handleVsync: the target is 1 unless maxVideoFps >= displayFps and a sample
\* already in the history is <= 1, then 3; the loop drops the oldest frame while
\* the depth exceeds the target, each drop counted once
CatchUpToTarget ==
    /\ [][vsPc = "hv_lock" /\ vsPc' # "hv_lock" =>
            vsTarget' = IF /\ cfg.maxVideoFps >= cfg.displayFps
                           /\ \E i \in DOMAIN m_PacingQueueHistory :
                                 m_PacingQueueHistory[i] <= 1
                        THEN 3 ELSE 1]_vars
    /\ [][CatchUpPass =>
            IF Len(m_PacingQueue) > vsTarget'
            THEN /\ vsPc' = "hv_dropfree"
                 /\ vsFrame' = Head(m_PacingQueue)
                 /\ m_PacingQueue' = Tail(m_PacingQueue)
            ELSE vsPc' # "hv_dropfree"]_vars
    /\ [][CatchUpPass /\ vsPc = "hv_dropfree" =>
            pacerDroppedFrames' = pacerDroppedFrames + 1 + RenderQueueOverflowDrops]_vars

\* C33: handleVsync computes frameDropTarget (1, or 3 when maxVideoFps >=
\* displayFps and a history sample is <= 1), drops oldest frames, one count
\* each, until the depth is at most the target, and whenever it releases a
\* frame the Pacing Queue held at most frameDropTarget frames
C33_ReleaseWithinDropTarget ==
    /\ CatchUpToTarget
    /\ [][hvMoved' = hvMoved + 1 => Len(m_PacingQueue) <= vsTarget']_vars

\* C33 as amended: the same, with the bound at release only for a frame that
\* handleVsync releases without having waited for one to arrive
C33_ReleaseWithoutWaitWithinDropTarget ==
    /\ CatchUpToTarget
    /\ [][CatchUpPass /\ hvMoved' = hvMoved + 1 => Len(m_PacingQueue) <= vsTarget']_vars

C33_Witness ==
    /\ vsPc = "hv_wake"
    /\ hvMoved = 1
    /\ vsTarget = 1
    /\ pacerDroppedFrames > 0
    /\ m_PacingQueueHistory # <<>>

\* a pass of the catch-up loop of Pacer::renderFrame: its test with the mutex
\* held, taken after the render or after a drop
RenderCatchUpPass ==
    /\ rcPc \in {"rf_lock", "rf_dropfree"}
    /\ rcPc' # rcPc \/ rcFrame' # rcFrame

PacingHistoryUpdate ==
    /\ vsPc = "hv_lock" /\ (vsPc' # vsPc \/ crashed' # crashed)
    /\ cfg.maxVideoFps >= cfg.displayFps

RenderHistoryUpdate ==
    /\ rcPc = "rf_lock" /\ (rcPc' # rcPc \/ crashed' # crashed)
    /\ ~cfg.noBuffering

\* C35: the pacing-queue history never holds more than displayFps / 2 samples
\* and the render-queue history never more than maxVideoFps / 2, for every
\* positive rate; a sample is evicted only from a non-empty history, and it is
\* the oldest one
C35_HistoriesAreBoundedWindows ==
    /\ [](Len(m_PacingQueueHistory) <= cfg.displayFps \div 2)
    /\ [](Len(m_RenderQueueHistory) <= cfg.maxVideoFps \div 2)
    /\ [][PacingHistoryUpdate /\ Len(m_PacingQueueHistory) = cfg.displayFps \div 2 =>
            /\ m_PacingQueueHistory # <<>>
            /\ m_PacingQueueHistory' =
                   Append(Tail(m_PacingQueueHistory), Len(m_PacingQueue))]_vars
    /\ [][RenderHistoryUpdate /\ Len(m_RenderQueueHistory) = cfg.maxVideoFps \div 2 =>
            /\ m_RenderQueueHistory # <<>>
            /\ m_RenderQueueHistory' =
                   Append(Tail(m_RenderQueueHistory), Len(m_RenderQueue))]_vars

\* C36: inside renderFrame a command allocator is reset only after a
\* CPU-blocking fence wait that covers the last command list submitted to the
\* engine's queue has completed, never while its work may still be executing
C36_AllocatorResetAfterCpuWait ==
    \A reset \in d3d12va.resets : ~reset[2]

\* the selection before "Correct VSR" names a step run by the vendor's
\* library, so that "Test VSR" runs the vendor's probe
RequestsVendorStep(in) ==
    /\ in.shader62support
    /\ LET d == UserOverride(in, VendorDefault(in))
       IN d.m_RenderStep1 \in VendorSteps \/ d.m_RenderStep2 \in VendorSteps

\* the probe "Test VSR" ran returned false
VendorProbeFailed(in) == RequestsVendorStep(in) /\ ~enableVideoSuperResolution(in)

\* a vendor step is in the pair only for its own vendor with a successful probe
VendorStepsOnlyWhenProbed(in, step1, step2) ==
    /\ "ALL_AMF" \in {step1, step2} => in.vendor = "AMD" /\ in.probeVSR
    /\ "UPSCALE_VSR" \in {step1, step2} => in.vendor = "NVIDIA" /\ in.probeVSR
    /\ {step1, step2} \cap VendorSteps \subseteq {"ALL_AMF", "UPSCALE_VSR"}

\* the pipelines initialize() has resolved so far
ResolvedPipelines ==
    CASE d3d12va.pc = "initialized" -> {d3d12va.first}
      [] d3d12va.pc = "initializedAgain" -> {d3d12va.first, d3d12va.second}
      [] OTHER -> {}

\* C37 as stated: ALL_AMF is resolved only for AMD with a successful AMD
\* probe, UPSCALE_VSR only for NVIDIA with a successful NVIDIA probe, and
\* when the probe fails the pair initialize() leaves is
\* (ALL_VIDEOPROCESSOR, NONE)
C37_VendorStepOnlyWhenProbed ==
    \A r \in ResolvedPipelines :
        /\ VendorStepsOnlyWhenProbed(d3d12va.in, r.m_RenderStep1, r.m_RenderStep2)
        /\ VendorProbeFailed(d3d12va.in)
              => <<r.m_RenderStep1, r.m_RenderStep2>> = <<"ALL_VIDEOPROCESSOR", "NONE">>

\* C37 amended: a vendor step is selected and resolved only for its own
\* vendor with a successful probe; when the probe fails
\* enhanceAutoSelection() selects (ALL_VIDEOPROCESSOR, NONE), which
\* initialize() keeps when the video processor converts and upscales and
\* otherwise replaces by a conversion step followed by UPSCALE_SHADER
C37_ProbeFailureFallsBackToProcessorOrShader ==
    \A r \in ResolvedPipelines :
        /\ VendorStepsOnlyWhenProbed(d3d12va.in, r.selected[1], r.selected[2])
        /\ VendorStepsOnlyWhenProbed(d3d12va.in, r.m_RenderStep1, r.m_RenderStep2)
        /\ VendorProbeFailed(d3d12va.in)
              => /\ r.selected = <<"ALL_VIDEOPROCESSOR", "NONE">>
                 /\ IF /\ d3d12va.in.m_VideoProcessorConvertEnabled
                       /\ d3d12va.in.m_VideoProcessorUpscalerEnabled
                    THEN <<r.m_RenderStep1, r.m_RenderStep2>> = r.selected
                    ELSE /\ r.m_RenderStep1 \in {"CONVERT_SHADER", "CONVERT_VIDEOPROCESSOR"}
                         /\ r.m_RenderStep2 = "UPSCALE_SHADER"

\* C37 witness: the AMD probe failed, the failure was stored in the singleton
\* and initialize() left the fallback pair to the video processor
C37_Witness ==
    /\ d3d12va.pc = "initialized"
    /\ d3d12va.in.vendor = "AMD"
    /\ VendorProbeFailed(d3d12va.in)
    /\ d3d12va.first.m_RenderStep1 = "ALL_VIDEOPROCESSOR"
    /\ d3d12va.first.m_RenderStep2 = "NONE"
    /\ m_VideoEnhancement.m_VSRcapable = FALSE

\* a renderFrame() call is between its entry and its return
RenderFrameInProgress == d3d12va.pc \in {"RenderStep1", "RenderStep2", "Draw", "Present"}

\* C38: renderFrame releases the overlay spinlock and clears m_SkipFrame on
\* every exit path (normal completion, every error fallback, Present
\* failure): the flag is set and the lock is held by renderFrame only while a
\* call is in progress, and no call finds the flag set at its entry
C38_LockAndSkipFlagReleasedOnEveryExit ==
    /\ d3d12va.m_SkipFrame => RenderFrameInProgress
    /\ d3d12va.m_OverlayLock = "render" <=> RenderFrameInProgress
    /\ "m_SkipFrame" \notin d3d12va.failures

\* C38 witness: a call whose Present failed has returned without assigning
\* m_OutputTexturePrevious, and the next call entered with the flag clear
C38_Witness ==
    /\ d3d12va.frames > 0
    /\ d3d12va.pc = "RenderStep1"
    /\ d3d12va.m_SkipFrame
    /\ Len(d3d12va.resetEvents) = 0
    /\ d3d12va.m_OverlayLock = "render"
    /\ ~d3d12va.m_OutputTexturePrevious

\* the last renderFrame() call took a fallback and, its Present having
\* succeeded, assigned m_OutputTexturePrevious
FallbackCallInstalledPrevious ==
    /\ d3d12va.pc = "ready"
    /\ d3d12va.frames > 0
    /\ d3d12va.failures \ {"Present"} # {}
    /\ "Present" \notin d3d12va.failures

\* C39: a renderFrame call that took an error fallback (the blank-frame path
\* included) never leaves in m_OutputTexturePrevious a texture that no
\* pipeline run has written
C39_PreviousOutputIsProcessed ==
    FallbackCallInstalledPrevious /\ d3d12va.m_OutputTexturePrevious
        => d3d12va.outputWritten

====
